---- MODULE Spec2Model ----
(***************************************************************************)
(* Model of the extraction and association pipeline of Pdf-scarper:        *)
(* the duplicate merger (app/scripts/clean_data.py), the catalog and guide *)
(* extractors (app/services/pdf_processing), the batch drivers             *)
(* (app/scripts/extract_all_pdfs.py) and the part-number recognizer.       *)
(*                                                                         *)
(* Text is a sequence of one-character strings; SQL NULL / Python None is  *)
(* the one-element sequence NULL, which is no text of the model.           *)
(***************************************************************************)
EXTENDS Integers, Sequences, FiniteSets, TLC

VARIABLES
    parts,        \* the parts table: a set of rows (records with a unique id)
    before,       \* the parts table as it was before the latest merge run
    lastOp,       \* the latest operation on the parts table
    inserts,      \* how many rows have been inserted so far
    pdf,          \* the document handed to an extractor last
    catalog_data, \* what process_pdf returned for it
    guide_data,   \* what process_guide_pdf returned for it
    phase,        \* where the batch driver is: "idle", "catalogs" or "guides"
    listing,      \* the directory listing the running driver iterates over
    report,       \* what the driver has logged for each document attempted
    runs,         \* how many times a driver has been started
    total_parts,        \* the driver's counter of inserted parts
    skipped_duplicates, \* the driver's counter of skipped candidates
    firstOffered, \* history: for each key, the type of the first candidate offered
    technical_guides,   \* the technical_guides table
    guide_parts,        \* the guide_parts table
    guide_seq,    \* the AUTOINCREMENT sequence of technical_guides
    recog_text,   \* the text handed to extract_part_info
    part_info,    \* what extract_part_info returned for it
    part_num,     \* the number handed to _is_valid_part
    valid,        \* what _is_valid_part returned for it
    called,       \* which function of the recognizer has been applied
    page_parts,   \* the part records made of the text as the text of a page
    machine_info, \* the machine models found in that text
    category,     \* what _infer_category returned for the text
    catalog_type, \* the catalog type the stand-alone script validated with
    img_page,     \* the page handed to an image extractor
    in_blocks,    \* the spans handed to _find_nearby_part_numbers
    in_rect,      \* the image rectangle handed to it
    img_called,   \* which function of the image extractors has been applied
    nearby_parts, \* history: the list nearby_parts before duplicates are removed
    unique_parts, \* what _find_nearby_part_numbers returned
    img_results,  \* what extract_images_with_parts returned
    saved_images, \* the images written to disk
    image_paths,  \* the parts of the catalog with the image given to each
    gt_text,      \* the key or page text handed to a text function of the guide extractor
    gt_pages,     \* the page texts of the guide handed to process_guide_pdf
    gt_called,    \* which of these functions has been applied
    clean_key,    \* what _clean_spec_key returned
    spec_map,     \* what _extract_specifications returned
    guide_related, \* the related parts process_guide_pdf collected
    gt_page_num,  \* the page number handed to _extract_sections
    gt_sections,  \* what _extract_sections returned
    mig_script,   \* which migration is modelled: "service" or "resume"
    mig_source,   \* the rowids of the SQLite parts table
    mig_target,   \* the SQL Server parts table: the source rowid of each row, in insert order
    mig_pc,       \* where the migration is: "idle", "loop", or how the last run ended
    mig_running,  \* MigrationController.is_running
    mig_batch_size,  \* self.batch_size
    mig_last_rowid,  \* last_rowid of the running migration
    mig_count,    \* migrated_count (before the resume script starts: its start_from_count)
    mig_start_rowid, \* start_rowid of the last run
    mig_failed,   \* history: a batch insert has raised
    mig_runs      \* how many times the migration has been started

mergeVars == <<parts, before, lastOp, inserts>>
extractVars == <<pdf, catalog_data, guide_data>>
batchVars ==
    <<phase, listing, report, runs, total_parts, skipped_duplicates, firstOffered,
      technical_guides, guide_parts, guide_seq>>
recogVars ==
    <<recog_text, part_info, part_num, valid, called, page_parts, machine_info, category,
      catalog_type>>

imageVars ==
    <<img_page, in_blocks, in_rect, img_called, nearby_parts, unique_parts, img_results,
      saved_images, image_paths>>

guideTextVars ==
    <<gt_text, gt_pages, gt_called, clean_key, spec_map, guide_related, gt_page_num,
      gt_sections>>

migrationVars ==
    <<mig_script, mig_source, mig_target, mig_pc, mig_running, mig_batch_size,
      mig_last_rowid, mig_count, mig_start_rowid, mig_failed, mig_runs>>

vars ==
    <<parts, before, lastOp, inserts, pdf, catalog_data, guide_data,
      phase, listing, report, runs, total_parts, skipped_duplicates, firstOffered,
      technical_guides, guide_parts, guide_seq, recog_text, part_info, part_num, valid, called,
      page_parts, machine_info, category, catalog_type,
      img_page, in_blocks, in_rect, img_called, nearby_parts, unique_parts, img_results,
      saved_images, image_paths,
      gt_text, gt_pages, gt_called, clean_key, spec_map, guide_related, gt_page_num, gt_sections,
      mig_script, mig_source, mig_target, mig_pc, mig_running, mig_batch_size,
      mig_last_rowid, mig_count, mig_start_rowid, mig_failed, mig_runs>>

-----------------------------------------------------------------------------
(* Text helpers: Python str and re primitives on character sequences.      *)

NULL == <<"NULL">>

\* No document has been handed to an extractor yet.
NoDocument == [kind |-> "none"]

\* No driver has run: what the batch variables hold at start.
BatchIdle ==
    /\ phase = "idle"
    /\ listing = <<>>
    /\ report = <<>>
    /\ runs = 0
    /\ total_parts = 0
    /\ skipped_duplicates = 0
    /\ firstOffered = <<>>
    /\ technical_guides = {}
    /\ guide_parts = {}
    /\ guide_seq = 0

\* The recognizer has not been called.
RecogIdle ==
    /\ recog_text = NULL
    /\ part_info = <<>>
    /\ part_num = NULL
    /\ valid = FALSE
    /\ called = "none"
    /\ page_parts = <<>>
    /\ machine_info = {}
    /\ category = ""
    /\ catalog_type = ""

\* No page and no rectangle have been handed to the image extractors.
NoPage == [width |-> 0, height |-> 0, blocks |-> <<>>, images |-> <<>>]
NoRect == <<0, 0, 0, 0>>

ImageIdle ==
    /\ img_page = NoPage
    /\ in_blocks = <<>>
    /\ in_rect = NoRect
    /\ img_called = "none"
    /\ nearby_parts = <<>>
    /\ unique_parts = <<>>
    /\ img_results = <<>>
    /\ saved_images = {}
    /\ image_paths = <<>>

\* Nothing has been handed to the text functions of the guide extractor.
GuideTextIdle ==
    /\ gt_text = NULL
    /\ gt_pages = <<>>
    /\ gt_called = "none"
    /\ clean_key = NULL
    /\ spec_map = <<>>
    /\ guide_related = {}
    /\ gt_page_num = 0
    /\ gt_sections = <<>>

\* No migration has been set up.
MigrationIdle ==
    /\ mig_script = "none"
    /\ mig_source = {}
    /\ mig_target = <<>>
    /\ mig_pc = "idle"
    /\ mig_running = TRUE
    /\ mig_batch_size = 0
    /\ mig_last_rowid = 0
    /\ mig_count = 0
    /\ mig_start_rowid = 0
    /\ mig_failed = FALSE
    /\ mig_runs = 0

\* Python truthiness of an optional text: None and "" are falsy.
Truthy(v) == v # NULL /\ v # <<>>

\* `v or ""`.
OrEmpty(v) == IF v = NULL THEN <<>> ELSE v

\* re's \s on the characters of the model.
IsSpace(c) == c \in {" ", "\t", "\n"}

\* Python `needle in hay` on str: substring test.
Contains(hay, needle) ==
    \E i \in 0..(Len(hay) - Len(needle)) :
        SubSeq(hay, i + 1, i + Len(needle)) = needle

\* Python slice s[:n].
Truncate(s, n) == IF Len(s) <= n THEN s ELSE SubSeq(s, 1, n)

\* i lies in a maximal run of three or more characters c of s.
InRun(s, c, i) ==
    /\ s[i] = c
    /\ \E k \in 0..2 :
          /\ i - k >= 1
          /\ i - k + 2 <= Len(s)
          /\ \A j \in (i - k)..(i - k + 2) : s[j] = c

\* re.sub(c{3,}, ' ', s): every maximal run of >= 3 characters c becomes one
\* space; a text that holds no c at all is returned as it is.
SubRuns(s, c) ==
    IF \A i \in 1..Len(s) : s[i] # c THEN s
    ELSE LET idx == SelectSeq([i \in 1..Len(s) |-> i],
                         LAMBDA i : ~InRun(s, c, i) \/ i = 1 \/ ~InRun(s, c, i - 1))
         IN  [k \in 1..Len(idx) |-> IF InRun(s, c, idx[k]) THEN " " ELSE s[idx[k]]]

\* re.sub(r'\s+', ' ', s): every maximal run of whitespace becomes one space;
\* a text whose whitespace is single spaces already is returned as it is.
SubSpaces(s) ==
    IF \A i \in 1..Len(s) :
          IsSpace(s[i]) => s[i] = " " /\ (i = 1 \/ ~IsSpace(s[i - 1]))
    THEN s
    ELSE LET idx == SelectSeq([i \in 1..Len(s) |-> i],
                         LAMBDA i : ~IsSpace(s[i]) \/ i = 1 \/ ~IsSpace(s[i - 1]))
         IN  [k \in 1..Len(idx) |-> IF IsSpace(s[idx[k]]) THEN " " ELSE s[idx[k]]]

\* str.strip(): leading and trailing whitespace is removed.
Strip(s) ==
    IF \A i \in 1..Len(s) : IsSpace(s[i]) THEN <<>>
    ELSE LET first == CHOOSE i \in 1..Len(s) :
                          ~IsSpace(s[i]) /\ \A j \in 1..(i - 1) : IsSpace(s[j])
             last == CHOOSE i \in 1..Len(s) :
                          ~IsSpace(s[i]) /\ \A j \in (i + 1)..Len(s) : IsSpace(s[j])
         IN  SubSeq(s, first, last)

\* A bug variant of clean_descriptions: whitespace is collapsed before the
\* runs of dots and dashes are replaced.
clean_descriptions_WsFirst(text) ==
    IF ~Truthy(text) THEN <<>>
    ELSE Strip(SubRuns(SubRuns(SubSpaces(text), "."), "-"))

\* clean_data.py clean_descriptions.
clean_descriptions(text) ==
    IF ~Truthy(text) THEN <<>>
    ELSE Strip(SubSpaces(SubRuns(SubRuns(text, "."), "-")))

\* s holds no run of three or more dots or dashes.
NoLongRuns(s) == \A i \in 1..Len(s) : ~InRun(s, ".", i) /\ ~InRun(s, "-", i)

\* s holds no two whitespace characters in a row.
NoRepeatedSpace(s) == \A i \in 2..Len(s) : ~(IsSpace(s[i - 1]) /\ IsSpace(s[i]))

-----------------------------------------------------------------------------
(* The parts table and merge_duplicate_parts (app/scripts/clean_data.py).  *)

\* Bound: rows inserted into the parts table in one behaviour.
MaxRows == 3

\* Length caps of the UPDATE of the surviving row.
DescCap == 500
FieldCap == 1000

Catalogs == {"catA", "catB"}
PartNumbers == {"P1"}
Pages == {1, 2}

\* (catalog_name, part_number, page) of the rows the model inserts.
PartKeys == {<<"catA", "P1", 1>>, <<"catA", "P1", 2>>, <<"catB", "P1", 1>>}

BrakePad == <<"B","r","a","k","e"," ","p","a","d">>
BrakePadX == BrakePad \o <<" ","f","o","r"," ","m","o","d","e","l"," ","X">>
Dotted == <<"a",".",".",".",".","b","\t"," ","-","-","-","c">>
\* 499 characters, a space and two more: the merged text crosses DescCap at a space.
LongText == [i \in 1..(DescCap - 1) |-> "x"] \o <<" ","y","z">>

\* The five free-text columns of the rows the model inserts under every key.
TextRows ==
    { [description |-> NULL,      applications |-> NULL,        features |-> NULL,
       specifications |-> NULL,   machine_info |-> NULL],
      [description |-> BrakePad,  applications |-> <<"t","r","k">>, features |-> <<"f"," ">>,
       specifications |-> <<"s",".",".",".","t">>, machine_info |-> <<"m">>],
      [description |-> BrakePadX, applications |-> <<"b","u","s">>, features |-> <<"g","-","-","-","h">>,
       specifications |-> <<"s">>, machine_info |-> <<"m","2">>],
      [description |-> Dotted,    applications |-> <<>>,        features |-> <<" "," ","f">>,
       specifications |-> <<"u",".",".","."," ","v">>, machine_info |-> NULL],
      [description |-> <<".",".",".">>, applications |-> <<"t","r","k">>, features |-> NULL,
       specifications |-> NULL, machine_info |-> <<"m","2">>] }

\* A row whose description is long enough for the merged text to reach DescCap.
LongRow ==
    [description |-> LongText,  applications |-> <<"b","u","s">>, features |-> <<"f">>,
     specifications |-> NULL,   machine_info |-> NULL]

\* What one insert may bring: a key and the five text columns.  Every text
\* row occurs under the first key; the other keys carry a part of them.
InsertPool ==
    ({<<"catA", "P1", 1>>} \X (TextRows \cup {LongRow}))
    \cup ({<<"catA", "P1", 2>>} \X {t \in TextRows : t.description \in {NULL, BrakePad, BrakePadX}})
    \cup ({<<"catB", "P1", 1>>} \X {t \in TextRows : t.description \in {BrakePad, Dotted}})

\* The grouping key of GROUP BY catalog_name, part_number, page.
KeyOf(r) == <<r.catalog_name, r.part_number, r.page>>

RowsOfKey(tbl, k) == {r \in tbl : KeyOf(r) = k}

\* SELECT ... GROUP BY catalog_name, part_number, page HAVING COUNT(*) > 1.
DuplicateKeys(tbl) ==
    {k \in {KeyOf(r) : r \in tbl} : Cardinality(RowsOfKey(tbl, k)) > 1}

\* ORDER BY id.
RECURSIVE OrderById(_)
OrderById(S) ==
    IF S = {} THEN <<>>
    ELSE LET m == CHOOSE r \in S : \A q \in S : r.id <= q.id
         IN  <<m>> \o OrderById(S \ {m})

\* A bug variant of MergeColumn: the new value replaces the accumulated text
\* instead of being appended to it.
RECURSIVE MergeColumn_Overwrite(_, _, _, _, _)
MergeColumn_Overwrite(acc, rest, col, sep, cleaned) ==
    IF rest = <<>> THEN acc
    ELSE LET v == Head(rest)[col]
             nxt == IF Truthy(v) /\ ~Contains(acc, v)
                    THEN (IF cleaned THEN clean_descriptions(v) ELSE v)
                    ELSE acc
         IN  MergeColumn_Overwrite(nxt, Tail(rest), col, sep, cleaned)

\* The loop over parts[1:] for one column: a value that is non-empty and no
\* substring of the accumulated text is appended after the separator,
\* cleaned first when the column is description, features or specifications.
RECURSIVE MergeColumn(_, _, _, _, _)
MergeColumn(acc, rest, col, sep, cleaned) ==
    IF rest = <<>> THEN acc
    ELSE LET v == Head(rest)[col]
             nxt == IF Truthy(v) /\ ~Contains(acc, v)
                    THEN acc \o <<sep>> \o (IF cleaned THEN clean_descriptions(v) ELSE v)
                    ELSE acc
         IN  MergeColumn(nxt, Tail(rest), col, sep, cleaned)

\* merged_data of one duplicate group after the final cleaning of every column.
MergedData(rows) ==
    LET first == rows[1]
        rest == Tail(rows)
    IN  [description |-> clean_descriptions(
             MergeColumn(clean_descriptions(OrEmpty(first.description)),
                         rest, "description", " ", TRUE)),
         applications |-> clean_descriptions(
             MergeColumn(OrEmpty(first.applications), rest, "applications", ";", FALSE)),
         features |-> clean_descriptions(
             MergeColumn(OrEmpty(first.features), rest, "features", " ", TRUE)),
         specifications |-> clean_descriptions(
             MergeColumn(OrEmpty(first.specifications), rest, "specifications", " ", TRUE)),
         machine_info |-> clean_descriptions(
             MergeColumn(OrEmpty(first.machine_info), rest, "machine_info", " ", FALSE))]

\* A bug variant of MergeGroup: the group is ordered by descending id, so the
\* newest row is kept.
MergeGroup_KeepLast(tbl, k) ==
    LET rows == OrderById(RowsOfKey(tbl, k))
        rev == [i \in 1..Len(rows) |-> rows[Len(rows) + 1 - i]]
        m == MergedData(rev)
        kept == [rev[1] EXCEPT !.description = Truncate(m.description, DescCap),
                               !.applications = Truncate(m.applications, FieldCap),
                               !.features = Truncate(m.features, FieldCap),
                               !.specifications = Truncate(m.specifications, FieldCap),
                               !.machine_info = Truncate(m.machine_info, FieldCap)]
    IN  IF Len(rows) < 2 THEN tbl
        ELSE (tbl \ RowsOfKey(tbl, k)) \cup {kept}

\* One iteration of the loop over the duplicate groups: UPDATE of the row of
\* lowest id with the merged, capped columns, DELETE of the other rows.
MergeGroup(tbl, k) ==
    LET rows == OrderById(RowsOfKey(tbl, k))
        m == MergedData(rows)
        kept == [rows[1] EXCEPT !.description = Truncate(m.description, DescCap),
                                !.applications = Truncate(m.applications, FieldCap),
                                !.features = Truncate(m.features, FieldCap),
                                !.specifications = Truncate(m.specifications, FieldCap),
                                !.machine_info = Truncate(m.machine_info, FieldCap)]
    IN  IF Len(rows) < 2 THEN tbl
        ELSE (tbl \ RowsOfKey(tbl, k)) \cup {kept}

RECURSIVE MergeGroups(_, _)
MergeGroups(tbl, keys) ==
    IF keys = {} THEN tbl
    ELSE LET k == CHOOSE x \in keys : TRUE
         IN  MergeGroups(MergeGroup(tbl, k), keys \ {k})

\* The closing pass: every non-empty description is cleaned.
CleanAllDescriptions(tbl) ==
    {IF Truthy(r.description)
     THEN [r EXCEPT !.description = clean_descriptions(r.description)]
     ELSE r : r \in tbl}

\* The table merge_duplicate_parts leaves.
MergeResult(tbl) == CleanAllDescriptions(MergeGroups(tbl, DuplicateKeys(tbl)))

\* min and max of the ids of a set of rows.
MinRowId(rows) == CHOOSE i \in {r.id : r \in rows} : \A r \in rows : i <= r.id
MaxRowId(rows) == CHOOSE i \in {r.id : r \in rows} : \A r \in rows : r.id <= i

\* INTEGER PRIMARY KEY of the schema without the UNIQUE key: max(id) + 1.
NextRowId(tbl) ==
    IF tbl = {} THEN 1
    ELSE (CHOOSE i \in {r.id : r \in tbl} : \A r \in tbl : r.id <= i) + 1

\* insert_part under the schema of old/db_setup.py, as the driver of
\* scripts/extract_all_pdfs.py calls it: no existence check, no UNIQUE key.
LegacyInsertPart ==
    /\ inserts < MaxRows
    /\ inserts' = inserts + 1
    /\ \E kt \in InsertPool :
          LET k == kt[1]
              t == kt[2]
          IN  parts' = parts \cup
                {[id |-> NextRowId(parts), catalog_name |-> k[1], part_number |-> k[2],
                  page |-> k[3], description |-> t.description,
                  applications |-> t.applications, features |-> t.features,
                  specifications |-> t.specifications, machine_info |-> t.machine_info]}
    /\ lastOp' = "insert"
    /\ UNCHANGED before
    /\ UNCHANGED extractVars
    /\ UNCHANGED batchVars
    /\ UNCHANGED <<recogVars, imageVars, guideTextVars, migrationVars>>

MergeDuplicateParts ==
    /\ parts' = MergeResult(parts)
    /\ before' = parts
    /\ lastOp' = "merge"
    /\ UNCHANGED inserts
    /\ UNCHANGED extractVars
    /\ UNCHANGED batchVars
    /\ UNCHANGED <<recogVars, imageVars, guideTextVars, migrationVars>>

\* cleanup_duplicates of scripts/extract_all_pdfs.py: DELETE FROM parts WHERE
\* id NOT IN (SELECT MIN(id) FROM parts GROUP BY catalog_name, part_number,
\* page).
cleanup_duplicates(tbl) ==
    {r \in tbl : r.id \in {MinRowId(RowsOfKey(tbl, k)) : k \in {KeyOf(q) : q \in tbl}}}

CleanupDuplicates ==
    /\ parts' = cleanup_duplicates(parts)
    /\ before' = parts
    /\ lastOp' = "cleanup_duplicates"
    /\ UNCHANGED inserts
    /\ UNCHANGED extractVars
    /\ UNCHANGED batchVars
    /\ UNCHANGED <<recogVars, imageVars, guideTextVars, migrationVars>>

\* The grouping columns of scripts/deduplicate.py: GROUP BY part_number,
\* description, machine_info, catalog_name.
DedupKeyOf(r) == <<r.part_number, r.description, r.machine_info, r.catalog_name>>

\* The duplicate groups its query returns: the rows WHERE description IS NOT
\* NULL, grouped, HAVING COUNT(*) > 1.
DedupGroups(tbl) ==
    LET described == {r \in tbl : r.description # NULL}
        groups == {{q \in described : DedupKeyOf(q) = DedupKeyOf(r)} : r \in described}
    IN  {g \in groups : Cardinality(g) > 1}

\* --strategy choices of deduplicate.py.
KeepStrategies == {"lowest_id", "highest_id", "first"}

\* The ids keep_id may be for a group: min(duplicate_ids), max(duplicate_ids),
\* or duplicate_ids[0], the first id of GROUP_CONCAT(id), whose order SQLite
\* leaves open.
KeepIds_AlwaysLowest(group, keep_strategy) == {MinRowId(group)}
KeepIds(group, keep_strategy) ==
    IF keep_strategy = "lowest_id" THEN {MinRowId(group)}
    ELSE IF keep_strategy = "highest_id" THEN {MaxRowId(group)}
    ELSE {r.id : r \in group}

\* The tables cleanup_duplicates of deduplicate.py may leave: with dry_run the
\* table as it is; else, for every group, the rows of remove_ids are deleted.
deduplicate(tbl, dry_run, keep_strategy) ==
    IF dry_run THEN {tbl}
    ELSE LET groups == DedupGroups(tbl)
         IN  {{r \in tbl : \A g \in groups : r \in g => r.id = keep[g]} :
                 keep \in {f \in [groups -> {r.id : r \in tbl}] :
                              \A g \in groups : f[g] \in KeepIds(g, keep_strategy)}}

\* What lastOp records of a run of deduplicate.py.
DedupOp(dry_run, keep_strategy) ==
    IF dry_run
    THEN [lowest_id |-> "deduplicate dry run lowest_id",
          highest_id |-> "deduplicate dry run highest_id",
          first |-> "deduplicate dry run first"][keep_strategy]
    ELSE [lowest_id |-> "deduplicate execute lowest_id",
          highest_id |-> "deduplicate execute highest_id",
          first |-> "deduplicate execute first"][keep_strategy]

Deduplicate ==
    /\ \E dry_run \in BOOLEAN, keep_strategy \in KeepStrategies :
          /\ parts' \in deduplicate(parts, dry_run, keep_strategy)
          /\ lastOp' = DedupOp(dry_run, keep_strategy)
    /\ before' = parts
    /\ UNCHANGED inserts
    /\ UNCHANGED extractVars
    /\ UNCHANGED batchVars
    /\ UNCHANGED <<recogVars, imageVars, guideTextVars, migrationVars>>

MergeInit ==
    /\ parts = {}
    /\ before = {}
    /\ lastOp = "init"
    /\ inserts = 0
    /\ pdf = NoDocument
    /\ catalog_data = <<>>
    /\ guide_data = <<>>
    /\ BatchIdle
    /\ RecogIdle
    /\ ImageIdle
    /\ GuideTextIdle
    /\ MigrationIdle

MergeNext == LegacyInsertPart \/ MergeDuplicateParts \/ CleanupDuplicates \/ Deduplicate

MergeSpec == MergeInit /\ [][MergeNext]_vars

-----------------------------------------------------------------------------
(* Documents as pdfplumber presents them, CatalogExtractor.process_pdf and *)
(* GuideExtractor.process_guide_pdf.                                       *)

\* Bound: pages of a document.
MaxPages == 2

\* Caps of _generate_template_fields.
TemplateSections == 5
TemplateSpecs == 10
TemplateParts == 20

\* Candidates extract_part_info finds on a page: the same number may be
\* found by two rules, under two types.
CandP1Part == [number |-> "P1", type |-> "part"]
CandP1Kit == [number |-> "P1", type |-> "kit"]
CandLists ==
    {<<>>, <<CandP1Part>>, <<CandP1Kit>>, <<CandP1Part, CandP1Kit>>, <<CandP1Kit, CandP1Part>>}

\* A page of a catalog: its text is extracted and mined ("text"), it has no
\* text ("blank"), extract_text raises ("textError") or extract_part_info
\* raises ("recogError").
CatalogPages ==
    [kind : {"text"}, cands : CandLists]
    \cup [kind : {"blank", "textError", "recogError"}, cands : {<<>>}]

SeqsUpTo(S, n) == UNION {[1..k -> S] : k \in 0..n}

\* The catalog documents of one file name; one that pdfplumber cannot open
\* has no pages to show.
CatalogDocs(name) ==
    [kind : {"catalog"}, name : {name}, opens : {TRUE}, pages : SeqsUpTo(CatalogPages, MaxPages)]
    \cup [kind : {"catalog"}, name : {name}, opens : {FALSE}, pages : {<<>>}]

\* The part records the loop body appends for page p.
PageRecords(doc, p) ==
    LET page == doc.pages[p]
    IN  IF page.kind = "text"
        THEN [i \in 1..Len(page.cands) |->
                 [catalog_name |-> doc.name, part_number |-> page.cands[i].number,
                  part_type |-> page.cands[i].type, page |-> p]]
        ELSE <<>>

RECURSIVE PagesRecords(_, _)
PagesRecords(doc, p) ==
    IF p > Len(doc.pages) THEN <<>>
    ELSE PageRecords(doc, p) \o PagesRecords(doc, p + 1)

\* CatalogExtractor.process_pdf: the list of part records.  Opening the
\* document and reading the text of pages[0] happen outside the per-page
\* try: when either raises, the outer handler logs and the (still empty)
\* list is returned.
process_pdf(doc) ==
    IF ~doc.opens THEN <<>>
    ELSE IF Len(doc.pages) = 0 THEN <<>>
    ELSE IF doc.pages[1].kind = "textError" THEN <<>>
    ELSE PagesRecords(doc, 1)

ProcessPdf ==
    /\ \E name \in Catalogs : \E doc \in CatalogDocs(name) :
          /\ pdf' = doc
          /\ catalog_data' = process_pdf(doc)
    /\ guide_data' = <<>>
    /\ UNCHANGED mergeVars
    /\ UNCHANGED batchVars
    /\ UNCHANGED <<recogVars, imageVars, guideTextVars, migrationVars>>

\* Python dict: a function from keys to values; {} is the empty function.
EmptyDict == <<>>

\* dict.update.
DictUpdate(d, e) ==
    [k \in (DOMAIN d) \cup (DOMAIN e) |-> IF k \in DOMAIN e THEN e[k] ELSE d[k]]

Range(f) == {f[i] : i \in DOMAIN f}

GuideNames == {"guideA", "guideB"}
GuidePartNumbers == {"P1", "P2"}

\* What the miners find on a page of a guide: section titles, specification
\* pairs and part numbers, in text order.
GuideContents ==
    { [sections |-> <<"INTRO">>, specs |-> [k \in {"Pressure"} |-> "30"], parts |-> <<"P1">>],
      [sections |-> <<>>,        specs |-> EmptyDict,                      parts |-> <<"P1", "P2">>],
      [sections |-> <<"SETUP">>, specs |-> [k \in {"Pressure"} |-> "40"], parts |-> <<"P2", "P2">>] }

NoContent == [sections |-> <<>>, specs |-> EmptyDict, parts |-> <<>>]

\* A page of a guide: mined ("text"), without text ("blank"), extract_text
\* raises ("textError") or _extract_sections raises ("mineError").
GuidePages ==
    [kind : {"text"}, found : GuideContents]
    \cup [kind : {"blank", "textError", "mineError"}, found : {NoContent}]

GuideDocs(name) ==
    [kind : {"guide"}, name : {name}, opens : {TRUE}, pages : SeqsUpTo(GuidePages, MaxPages)]
    \cup [kind : {"guide"}, name : {name}, opens : {FALSE}, pages : {<<>>}]

\* The orders in which list(set(...)) may enumerate the part numbers.
PartOrders ==
    {o \in [1..Cardinality(GuidePartNumbers) -> GuidePartNumbers] :
        Range(o) = GuidePartNumbers}

\* list(set(xs)), the set enumerated in the order o.
ListOfSet(xs, o) == SelectSeq(o, LAMBDA x : x \in Range(xs))

\* guide_data as process_guide_pdf initialises it (the columns derived from
\* the file name alone are left out).
NewGuideData(doc) ==
    [guide_name |-> doc.name, sections |-> <<>>, specifications |-> EmptyDict,
     related_parts |-> <<>>, template_fields |-> EmptyDict]

\* _extract_sections of page p: one section per header line.
SectionsOf(page, p) ==
    [i \in 1..Len(page.found.sections) |-> [title |-> page.found.sections[i], page |-> p]]

\* dict(list(d.items())[:n]) on the keys in insertion order; the model's
\* dicts hold fewer than n keys.
FirstItems(d, n) == IF Cardinality(DOMAIN d) <= n THEN d ELSE EmptyDict

\* _generate_template_fields.
GenerateTemplateFields(g) ==
    [sections |-> Truncate(g.sections, TemplateSections),
     key_specifications |-> FirstItems(g.specifications, TemplateSpecs),
     related_parts |-> Truncate(g.related_parts, TemplateParts)]

\* The loop over the pages from page p on.  It has no try of its own: the
\* first page that raises ends it, and the outer handler is reached with
\* what was collected so far.
RECURSIVE GuidePagesLoop(_, _, _)
GuidePagesLoop(doc, p, g) ==
    IF p > Len(doc.pages) THEN [data |-> g, raised |-> FALSE]
    ELSE LET page == doc.pages[p]
         IN  IF page.kind \in {"textError", "mineError"}
             THEN [data |-> g, raised |-> TRUE]
             ELSE IF page.kind = "blank" THEN GuidePagesLoop(doc, p + 1, g)
             ELSE GuidePagesLoop(doc, p + 1,
                      [g EXCEPT !.related_parts = @ \o page.found.parts,
                                !.sections = @ \o SectionsOf(page, p),
                                !.specifications = DictUpdate(@, page.found.specs)])

\* GuideExtractor.process_guide_pdf; o is the order list(set(...)) yields.
process_guide_pdf(doc, o) ==
    LET g0 == NewGuideData(doc)
    IN  IF ~doc.opens THEN g0
        ELSE IF Len(doc.pages) = 0 THEN g0
        ELSE IF doc.pages[1].kind = "textError" THEN g0
        ELSE LET g1 == [g0 EXCEPT !.related_parts = doc.pages[1].found.parts]
                 loop == GuidePagesLoop(doc, 1, g1)
                 g2 == [loop.data EXCEPT !.related_parts = ListOfSet(@, o)]
             IN  IF loop.raised THEN loop.data
                 ELSE [g2 EXCEPT !.template_fields = GenerateTemplateFields(g2)]

ProcessGuidePdf ==
    /\ \E name \in GuideNames : \E doc \in GuideDocs(name) : \E o \in PartOrders :
          /\ pdf' = doc
          /\ guide_data' = process_guide_pdf(doc, o)
    /\ catalog_data' = <<>>
    /\ UNCHANGED mergeVars
    /\ UNCHANGED batchVars
    /\ UNCHANGED <<recogVars, imageVars, guideTextVars, migrationVars>>

ExtractInit ==
    /\ pdf = NoDocument
    /\ catalog_data = <<>>
    /\ guide_data = <<>>
    /\ parts = {}
    /\ before = {}
    /\ lastOp = "init"
    /\ inserts = 0
    /\ BatchIdle
    /\ RecogIdle
    /\ ImageIdle
    /\ GuideTextIdle
    /\ MigrationIdle

ExtractNext == ProcessPdf \/ ProcessGuidePdf

ExtractSpec == ExtractInit /\ [][ExtractNext]_vars

-----------------------------------------------------------------------------
(* The batch drivers of app/scripts/extract_all_pdfs.py over the store of  *)
(* services/db/setup.py: process_pdf_catalogs and process_technical_guides. *)
(* A step is one iteration of the driver's loop over the directory listing. *)

\* Bound: how many times a driver is started.
MaxRuns == 2

\* Bound: pages of a document met in a batch run.
ListedPages == 1

\* The documents a file of the listing may turn out to be.
ListedDocs(docs) == {d \in docs : Len(d.pages) <= ListedPages}

\* list(directory.glob("*.pdf")): the files present, each once, in any order.
Listings(names) ==
    {fs \in SeqsUpTo(names, Cardinality(names)) :
        \A i, j \in 1..Len(fs) : fs[i] = fs[j] => i = j}

\* part_exists: SELECT id FROM parts WHERE catalog_name = ? AND part_number = ?
\* AND page = ?; when the query raises, the handler logs and answers False.
part_exists(tbl, part_data, raises) ==
    IF raises THEN FALSE
    ELSE \E r \in tbl : KeyOf(r) = KeyOf(part_data)

\* The row an INSERT of part_data adds (text columns are not in these records).
NewPartRow(tbl, part_data) ==
    [id |-> NextRowId(tbl), catalog_name |-> part_data.catalog_name,
     part_number |-> part_data.part_number, page |-> part_data.page,
     part_type |-> part_data.part_type]

\* An INSERT into a parts table that has no UNIQUE constraint.
insert_part_NoUnique(tbl, part_data) ==
    [table |-> tbl \cup {NewPartRow(tbl, part_data)}, raised |-> FALSE]

\* DatabaseManager.insert_part on the parts table of setup.py: a plain INSERT,
\* which UNIQUE(catalog_name, part_number, page) makes raise when the key is
\* already held.
insert_part(tbl, part_data) ==
    IF \E r \in tbl : KeyOf(r) = KeyOf(part_data)
    THEN [table |-> tbl, raised |-> TRUE]
    ELSE [table |-> tbl \cup {NewPartRow(tbl, part_data)}, raised |-> FALSE]

\* The inner loop of process_pdf_catalogs over catalog_data[i..last]: st holds
\* the table and the counters inserted_count and skipped_duplicates.
RECURSIVE StoreParts(_, _, _, _, _)
StoreParts(st, data, i, last, checkRaises) ==
    IF i > last THEN st
    ELSE IF part_exists(st.table, data[i], checkRaises)
         THEN StoreParts([st EXCEPT !.skipped = @ + 1], data, i + 1, last, checkRaises)
         ELSE LET ins == insert_part(st.table, data[i])
              IN  IF ins.raised
                  THEN StoreParts([st EXCEPT !.skipped = @ + 1], data, i + 1, last, checkRaises)
                  ELSE StoreParts([st EXCEPT !.table = ins.table, !.inserted = @ + 1],
                                  data, i + 1, last, checkRaises)

\* History: the type of the first candidate the driver has offered to the
\* store for each key, after data[i..last] have been offered in order.
RECURSIVE NoteOffered(_, _, _, _)
NoteOffered(off, data, i, last) ==
    IF i > last THEN off
    ELSE LET k == KeyOf(data[i])
         IN  NoteOffered(IF k \in DOMAIN off THEN off
                         ELSE DictUpdate(off, [x \in {k} |-> data[i].part_type]),
                         data, i + 1, last)

\* The phase after an iteration whose exception ended the whole loop.
NextPhase_Abort(ph, status) == IF status = "error" THEN "idle" ELSE ph

\* The phase after an iteration: the handler of the loop body logs and
\* continues, so the driver stays in its loop whatever the status.
NextPhase(ph, status) == ph

\* process_pdf_catalogs up to its loop: the directory is listed; a missing
\* directory or an empty listing makes the driver return at once.
StartCatalogs ==
    /\ phase = "idle"
    /\ runs < MaxRuns
    /\ \E files \in Listings(Catalogs) :
          /\ listing' = files
          /\ phase' = IF files = <<>> THEN "idle" ELSE "catalogs"
    /\ report' = <<>>
    /\ runs' = runs + 1
    /\ total_parts' = 0
    /\ skipped_duplicates' = 0
    /\ UNCHANGED <<firstOffered, technical_guides, guide_parts, guide_seq>>
    /\ UNCHANGED <<mergeVars, extractVars, recogVars, imageVars, guideTextVars, migrationVars>>

\* One iteration of the loop of process_pdf_catalogs.  crash = k > 0: the
\* body raises while it prepares record k (records before k are stored).
CatalogStep ==
    /\ phase = "catalogs"
    /\ Len(report) < Len(listing)
    /\ LET name == listing[Len(report) + 1]
       IN  \E res \in {[opened |-> d.opens, data |-> process_pdf(d)] : d \in ListedDocs(CatalogDocs(name))} :
           \E crash \in 0..Len(res.data) : \E checkRaises \in BOOLEAN :
              LET last == IF crash = 0 THEN Len(res.data) ELSE crash - 1
                  status == IF crash = 0 THEN "ok" ELSE "error"
                  st == StoreParts([table |-> parts, inserted |-> 0, skipped |-> skipped_duplicates],
                                   res.data, 1, last, checkRaises)
              IN  /\ parts' = st.table
                  /\ skipped_duplicates' = st.skipped
                  /\ total_parts' = IF crash = 0 THEN total_parts + st.inserted ELSE total_parts
                  /\ report' = Append(report,
                                  [kind |-> "catalog", name |-> name, opened |-> res.opened,
                                   status |-> status])
                  /\ firstOffered' = NoteOffered(firstOffered, res.data, 1, last)
                  /\ phase' = NextPhase(phase, status)
    /\ UNCHANGED <<listing, runs, technical_guides, guide_parts, guide_seq>>
    /\ UNCHANGED <<before, lastOp, inserts, extractVars, recogVars, imageVars, guideTextVars, migrationVars>>

\* The loop is exhausted: the totals are logged and the driver returns.
FinishCatalogs ==
    /\ phase = "catalogs"
    /\ Len(report) = Len(listing)
    /\ phase' = "idle"
    /\ UNCHANGED <<listing, report, runs, total_parts, skipped_duplicates, firstOffered,
                   technical_guides, guide_parts, guide_seq>>
    /\ UNCHANGED <<mergeVars, extractVars, recogVars, imageVars, guideTextVars, migrationVars>>

\* save_guide_to_database when nothing raises: INSERT OR REPLACE removes the
\* row that holds the guide_name and adds a row with a fresh id; one
\* guide_parts row per related part is added under that id (INSERT OR IGNORE
\* under UNIQUE(guide_id, part_number)).
save_guide_to_database(tg, gp, seq, g) ==
    LET guide_id == seq + 1
    IN  [technical_guides |->
             {r \in tg : r.guide_name # g.guide_name}
             \cup {[id |-> guide_id, guide_name |-> g.guide_name,
                    related_parts |-> g.related_parts]},
         guide_parts |->
             gp \cup {[guide_id |-> guide_id, part_number |-> n] : n \in Range(g.related_parts)},
         guide_seq |-> guide_id,
         guide_id |-> guide_id]

\* process_technical_guides up to its loop.
StartGuides ==
    /\ phase = "idle"
    /\ runs < MaxRuns
    /\ \E files \in Listings(GuideNames) :
          /\ listing' = files
          /\ phase' = IF files = <<>> THEN "idle" ELSE "guides"
    /\ report' = <<>>
    /\ runs' = runs + 1
    /\ UNCHANGED <<total_parts, skipped_duplicates, firstOffered,
                   technical_guides, guide_parts, guide_seq>>
    /\ UNCHANGED <<mergeVars, extractVars, recogVars, imageVars, guideTextVars, migrationVars>>

\* One iteration of the loop of process_technical_guides.  outcome: the guide
\* is saved, save_guide_to_database fails inside (it answers -1), or the body
\* raises before the save.
GuideStep ==
    /\ phase = "guides"
    /\ Len(report) < Len(listing)
    /\ LET name == listing[Len(report) + 1]
       IN  \E res \in {[opened |-> d.opens, data |-> process_guide_pdf(d, o)] :
                          d \in ListedDocs(GuideDocs(name)), o \in PartOrders} :
           \E outcome \in {"saved", "saveFailed", "raised"} :
              LET sv == save_guide_to_database(technical_guides, guide_parts, guide_seq, res.data)
                  status == CASE outcome = "saved" -> "ok"
                              [] outcome = "saveFailed" -> "failed"
                              [] OTHER -> "error"
              IN  /\ technical_guides' = IF outcome = "saved" THEN sv.technical_guides ELSE technical_guides
                  /\ guide_parts' = IF outcome = "saved" THEN sv.guide_parts ELSE guide_parts
                  /\ guide_seq' = IF outcome = "saved" THEN sv.guide_seq ELSE guide_seq
                  /\ report' = Append(report,
                                  [kind |-> "guide", name |-> name, opened |-> res.opened,
                                   status |-> status])
                  /\ phase' = NextPhase(phase, status)
    /\ UNCHANGED <<listing, runs, total_parts, skipped_duplicates, firstOffered>>
    /\ UNCHANGED <<mergeVars, extractVars, recogVars, imageVars, guideTextVars, migrationVars>>

\* The loop is exhausted: the counts are logged and the driver returns.
FinishGuides ==
    /\ phase = "guides"
    /\ Len(report) = Len(listing)
    /\ phase' = "idle"
    /\ UNCHANGED <<listing, report, runs, total_parts, skipped_duplicates, firstOffered,
                   technical_guides, guide_parts, guide_seq>>
    /\ UNCHANGED <<mergeVars, extractVars, recogVars, imageVars, guideTextVars, migrationVars>>

BatchInit ==
    /\ BatchIdle
    /\ RecogIdle
    /\ ImageIdle
    /\ GuideTextIdle
    /\ MigrationIdle
    /\ parts = {}
    /\ before = {}
    /\ lastOp = "init"
    /\ inserts = 0
    /\ pdf = NoDocument
    /\ catalog_data = <<>>
    /\ guide_data = <<>>

BatchNext ==
    \/ StartCatalogs
    \/ CatalogStep
    \/ FinishCatalogs
    \/ StartGuides
    \/ GuideStep
    \/ FinishGuides

BatchSpec == BatchInit /\ [][BatchNext]_vars

\* The loops are sequential and every iteration returns: a driver that has
\* been started keeps taking its steps.
FairBatchSpec ==
    /\ BatchSpec
    /\ WF_vars(CatalogStep)
    /\ WF_vars(FinishCatalogs)
    /\ WF_vars(GuideStep)
    /\ WF_vars(FinishGuides)

-----------------------------------------------------------------------------
(* The recognizer of CatalogExtractor: Python's re on character sequences,  *)
(* rules of PART_NUMBER_PATTERNS (utils/constants.py), _is_valid_part,       *)
(* _extract_context and extract_part_info.                                   *)

Digits == {"0", "1", "2", "3", "4", "5", "6", "7", "8", "9"}
UpperSeq ==
    <<"A", "B", "C", "D", "E", "F", "G", "H", "I", "J", "K", "L", "M",
      "N", "O", "P", "Q", "R", "S", "T", "U", "V", "W", "X", "Y", "Z">>
LowerSeq ==
    <<"a", "b", "c", "d", "e", "f", "g", "h", "i", "j", "k", "l", "m",
      "n", "o", "p", "q", "r", "s", "t", "u", "v", "w", "x", "y", "z">>
UpperLetters == Range(UpperSeq)
LowerLetters == Range(LowerSeq)
\* \w
WordChars == UpperLetters \cup LowerLetters \cup Digits \cup {"_"}

\* str.upper().
ToUpper(c) ==
    IF c \in LowerLetters THEN UpperSeq[CHOOSE i \in 1..Len(LowerSeq) : LowerSeq[i] = c] ELSE c
UpperCase(s) == [i \in 1..Len(s) |-> ToUpper(s[i])]

\* Regular expressions as trees: a character class, a concatenation, an
\* alternation, a greedy repetition {lo,hi} or {lo,}, and the assertions
\* \b, ^ and $.
Cls(set) == [op |-> "cls", set |-> set]
Ch(c) == Cls({c})
Cat(items) == [op |-> "cat", items |-> items]
Alt(items) == [op |-> "alt", items |-> items]
Rep(item, lo, hi) == [op |-> "rep", item |-> item, lo |-> lo, hi |-> hi, open |-> FALSE]
RepFrom(item, lo) == [op |-> "rep", item |-> item, lo |-> lo, hi |-> lo, open |-> TRUE]
Opt(item) == Rep(item, 0, 1)
Wb == [op |-> "wb"]
Bol == [op |-> "bol"]
Eol == [op |-> "eol"]
Digit == Cls(Digits)
Upper == Cls(UpperLetters)

\* \b at position i: exactly one of the characters before and at i is a
\* word character.
IsWordBoundary(s, i) ==
    LET prev == i > 1 /\ s[i - 1] \in WordChars
        here == i <= Len(s) /\ s[i] \in WordChars
    IN  prev # here

\* The positions at which a match of re that begins at i may end, in the
\* order the backtracking matcher tries them (greedy repetitions first take
\* as much as they can).
RECURSIVE Ends(_, _, _)
RECURSIVE CatEnds(_, _, _, _)
RECURSIVE CatOver(_, _, _, _, _)
RECURSIVE AltOver(_, _, _, _)
RECURSIVE RepEnds(_, _, _, _)
RECURSIVE RepOver(_, _, _, _, _, _)
Ends(re, s, i) ==
    CASE re.op = "cls" -> IF i <= Len(s) /\ s[i] \in re.set THEN <<i + 1>> ELSE <<>>
      [] re.op = "wb" -> IF IsWordBoundary(s, i) THEN <<i>> ELSE <<>>
      [] re.op = "bol" -> IF i = 1 THEN <<i>> ELSE <<>>
      [] re.op = "eol" ->
            IF i = Len(s) + 1 \/ (i = Len(s) /\ s[i] = "\n") THEN <<i>> ELSE <<>>
      [] re.op = "cat" -> CatEnds(re.items, 1, s, i)
      [] re.op = "alt" -> AltOver(re.items, 1, s, i)
      [] re.op = "rep" -> RepEnds(re, 0, s, i)

CatEnds(items, k, s, i) ==
    IF k > Len(items) THEN <<i>>
    ELSE CatOver(Ends(items[k], s, i), 1, items, k + 1, s)

CatOver(ends, j, items, k, s) ==
    IF j > Len(ends) THEN <<>>
    ELSE CatEnds(items, k, s, ends[j]) \o CatOver(ends, j + 1, items, k, s)

AltOver(items, k, s, i) ==
    IF k > Len(items) THEN <<>>
    ELSE Ends(items[k], s, i) \o AltOver(items, k + 1, s, i)

RepEnds(re, n, s, i) ==
    (IF re.open \/ n < re.hi THEN RepOver(Ends(re.item, s, i), 1, re, n, s, i) ELSE <<>>)
    \o (IF n >= re.lo THEN <<i>> ELSE <<>>)

RepOver(ends, j, re, n, s, i) ==
    IF j > Len(ends) THEN <<>>
    ELSE (IF ends[j] > i THEN RepEnds(re, n + 1, s, ends[j]) ELSE <<>>)
         \o RepOver(ends, j + 1, re, n, s, i)

\* pattern.finditer(text): the non-overlapping matches from pos on, leftmost
\* first; group(1) of the rules modelled spans the whole match.
RECURSIVE finditer(_, _, _)
finditer(re, s, pos) ==
    LET starts == {p \in pos..(Len(s) + 1) : Ends(re, s, p) # <<>>}
    IN  IF starts = {} THEN <<>>
        ELSE LET first == CHOOSE p \in starts : \A q \in starts : p <= q
                 ends == Ends(re, s, first)
             IN  <<[start |-> first, end |-> ends[1]]>>
                 \o finditer(re, s, IF ends[1] = first THEN first + 1 ELSE ends[1])

\* re.search(pattern, string, flags).  The patterns searched with re.I hold
\* upper-case letters and digits only, so ignoring case is matching the
\* upper-cased string.
re_search(re, s, ignorecase) ==
    finditer(re, IF ignorecase THEN UpperCase(s) ELSE s, 1) # <<>>

\* The letters of a word, as one-character classes.
Word(w) == Cat([i \in 1..Len(w) |-> Ch(w[i])])

\* The false_positives of _is_valid_part.
\* \b(19|20)\d{2}\b
DatePattern ==
    Cat(<<Wb, Alt(<<Word(<<"1", "9">>), Word(<<"2", "0">>)>>), Rep(Digit, 2, 2), Wb>>)
\* ^\d{1,3}$
PageNumberPattern == Cat(<<Bol, Rep(Digit, 1, 3), Eol>>)
\* \b(CHAPTER|SECTION|PAGE|FIG|TABLE)\b
CommonWords ==
    <<<<"C", "H", "A", "P", "T", "E", "R">>,
      <<"S", "E", "C", "T", "I", "O", "N">>,
      <<"P", "A", "G", "E">>, <<"F", "I", "G">>, <<"T", "A", "B", "L", "E">>>>
CommonWordPattern ==
    Cat(<<Wb, Alt([i \in 1..Len(CommonWords) |-> Word(CommonWords[i])]), Wb>>)

\* The least length of a part number.
MinPartLen == 4

\* _is_valid_part with the false_positives searched without re.I.
_is_valid_part_CaseSensitive(pn) ==
    IF \/ re_search(DatePattern, pn, FALSE)
       \/ re_search(PageNumberPattern, pn, FALSE)
       \/ re_search(CommonWordPattern, pn, FALSE)
    THEN FALSE
    ELSE Len(pn) >= MinPartLen

\* CatalogExtractor._is_valid_part.
_is_valid_part(pn) ==
    IF \/ re_search(DatePattern, pn, TRUE)
       \/ re_search(PageNumberPattern, pn, TRUE)
       \/ re_search(CommonWordPattern, pn, TRUE)
    THEN FALSE
    ELSE Len(pn) >= MinPartLen

\* Rules of PART_NUMBER_PATTERNS, in the order of the list, with the line of
\* constants.py each stands on; the list holds several rules twice.
\* \b(SCH\s+\d+)\b
RuleSch ==
    Cat(<<Wb, Word(<<"S", "C", "H">>), RepFrom(Cls({" ", "\t", "\n"}), 1), RepFrom(Digit, 1), Wb>>)
\* \b([A-Z]{2}\d-\d{4})\b
RuleLetterDigitDash ==
    Cat(<<Wb, Rep(Upper, 2, 2), Digit, Ch("-"), Rep(Digit, 4, 4), Wb>>)
\* \b([A-Z]{1,4}\d{2,4}(?:-\d+)?[A-Z]?)\b
RuleGeneralPart ==
    Cat(<<Wb, Rep(Upper, 1, 4), Rep(Digit, 2, 4),
          Opt(Cat(<<Ch("-"), RepFrom(Digit, 1)>>)), Opt(Upper), Wb>>)
\* \b([A-Z]{2,}-[A-Z0-9]+(?:-[A-Z0-9]+)?)\b
RuleLettersDash ==
    Cat(<<Wb, RepFrom(Upper, 2), Ch("-"), RepFrom(Cls(UpperLetters \cup Digits), 1),
          Opt(Cat(<<Ch("-"), RepFrom(Cls(UpperLetters \cup Digits), 1)>>)), Wb>>)
\* \b([A-Z]?\d+[A-Z]+|[A-Z]+\d+[A-Z]*)\b
RuleModel ==
    Cat(<<Wb,
          Alt(<<Cat(<<Opt(Upper), RepFrom(Digit, 1), RepFrom(Upper, 1)>>),
                Cat(<<RepFrom(Upper, 1), RepFrom(Digit, 1), RepFrom(Upper, 0)>>)>>),
          Wb>>)
\* \b(600-\d{3,4}[A-Z]?)\b
RuleCaliper ==
    Cat(<<Wb, Word(<<"6", "0", "0", "-">>), Rep(Digit, 3, 4), Opt(Upper), Wb>>)
\* \b(CH\d{4})\b
RuleChKit == Cat(<<Wb, Word(<<"C", "H">>), Rep(Digit, 4, 4), Wb>>)
\* \b([A-Z]\d{4,5})\b
RuleLetterDigits == Cat(<<Wb, Upper, Rep(Digit, 4, 5), Wb>>)

PART_NUMBER_PATTERNS ==
    << [line |-> 6,   pattern |-> RuleLetterDigitDash, tag |-> "part"],
       [line |-> 12,  pattern |-> RuleSch,             tag |-> "oem"],
       [line |-> 19,  pattern |-> RuleSch,             tag |-> "oem"],
       [line |-> 44,  pattern |-> RuleGeneralPart,     tag |-> "part"],
       [line |-> 46,  pattern |-> RuleLettersDash,     tag |-> "part"],
       [line |-> 48,  pattern |-> RuleModel,           tag |-> "model"],
       [line |-> 49,  pattern |-> RuleCaliper,         tag |-> "caliper"],
       [line |-> 50,  pattern |-> RuleChKit,           tag |-> "kit"],
       [line |-> 65,  pattern |-> RuleLetterDigits,    tag |-> "part"],
       [line |-> 164, pattern |-> RuleGeneralPart,     tag |-> "part"],
       [line |-> 166, pattern |-> RuleLettersDash,     tag |-> "part"],
       [line |-> 168, pattern |-> RuleModel,           tag |-> "model"],
       [line |-> 169, pattern |-> RuleCaliper,         tag |-> "caliper"],
       [line |-> 170, pattern |-> RuleChKit,           tag |-> "kit"],
       [line |-> 185, pattern |-> RuleLetterDigits,    tag |-> "part"] >>

\* Caps of _extract_context.
ContextBudget == 250
ContextWindow == 100

\* text.split('\n').
RECURSIVE SplitLines(_)
SplitLines(s) ==
    IF \A i \in 1..Len(s) : s[i] # "\n" THEN <<s>>
    ELSE LET nl == CHOOSE i \in 1..Len(s) : s[i] = "\n" /\ \A j \in 1..(i - 1) : s[j] # "\n"
         IN  <<SubSeq(s, 1, nl - 1)>> \o SplitLines(SubSeq(s, nl + 1, Len(s)))

\* _extract_context: the first line that holds the matched text, stripped,
\* with whitespace collapsed, cut to the budget; else a window of raw text.
_extract_context(s, m) ==
    LET lines == SplitLines(s)
        matched == SubSeq(s, m.start, m.end - 1)
        hits == {k \in 1..Len(lines) : Contains(lines[k], matched)}
    IN  IF hits # {}
        THEN LET k == CHOOSE h \in hits : \A g \in hits : h <= g
             IN  Truncate(SubSpaces(Strip(lines[k])), ContextBudget)
        ELSE LET start == IF m.start - 1 - ContextWindow > 0 THEN m.start - ContextWindow ELSE 1
                 end == IF m.end - 1 + ContextWindow < Len(s) THEN m.end - 1 + ContextWindow ELSE Len(s)
             IN  Strip(SubSeq(s, start, end))

\* The candidates of one rule: for each match, in text order, the number is
\* group(1).upper().strip(), kept when _is_valid_part accepts it.
RECURSIVE RuleCandidates(_, _, _, _, _)
RuleCandidates(rule, ms, j, s, page_number) ==
    IF j > Len(ms) THEN <<>>
    ELSE LET pn == Strip(UpperCase(SubSeq(s, ms[j].start, ms[j].end - 1)))
             rest == RuleCandidates(rule, ms, j + 1, s, page_number)
         IN  IF _is_valid_part(pn)
             THEN <<[type |-> rule.tag, number |-> pn,
                     context |-> _extract_context(s, ms[j]), page |-> page_number]>> \o rest
             ELSE rest

\* The loop over the rules from rule k on.
RECURSIVE RulesLoop(_, _, _)
RulesLoop(k, s, page_number) ==
    IF k > Len(PART_NUMBER_PATTERNS) THEN <<>>
    ELSE LET rule == PART_NUMBER_PATTERNS[k]
         IN  RuleCandidates(rule, finditer(rule.pattern, s, 1), 1, s, page_number)
             \o RulesLoop(k + 1, s, page_number)

\* The loop over the rules, left at the first rule that yields a candidate.
RECURSIVE RulesLoop_FirstRuleOnly(_, _, _)
RulesLoop_FirstRuleOnly(k, s, page_number) ==
    IF k > Len(PART_NUMBER_PATTERNS) THEN <<>>
    ELSE LET rule == PART_NUMBER_PATTERNS[k]
             found == RuleCandidates(rule, finditer(rule.pattern, s, 1), 1, s, page_number)
         IN  IF found # <<>> THEN found ELSE RulesLoop_FirstRuleOnly(k + 1, s, page_number)

\* extract_part_info that stops at the first rule with a candidate.
extract_part_info_FirstRuleOnly(s, page_number) == RulesLoop_FirstRuleOnly(1, s, page_number)

\* CatalogExtractor.extract_part_info: every rule is applied, in list order,
\* and every match that passes the filter is appended.
extract_part_info(s, page_number) == RulesLoop(1, s, page_number)

-----------------------------------------------------------------------------
(* Machine models, category inference and the part records of a page       *)
(* (CatalogExtractor.extract_machine_info, _infer_category, process_pdf).  *)

\* str.lower().
ToLower(c) ==
    IF c \in UpperLetters THEN LowerSeq[CHOOSE i \in 1..Len(UpperSeq) : UpperSeq[i] = c] ELSE c
LowerCase(s) == [i \in 1..Len(s) |-> ToLower(s[i])]

\* \s
Space == Cls({" ", "\t", "\n"})

\* Rules of MACHINE_PATTERNS, with the line of constants.py each stands on.
\* \b(D[3-9]|D1[0-1]|[0-9]{3}[A-Z]?)\b
MachineRuleDSeries ==
    Cat(<<Wb,
          Alt(<<Cat(<<Ch("D"), Cls({"3", "4", "5", "6", "7", "8", "9"})>>),
                Cat(<<Ch("D"), Ch("1"), Cls({"0", "1"})>>),
                Cat(<<Rep(Digit, 3, 3), Opt(Upper)>>)>>),
          Wb>>)
\* \b([A-Z]+\s*[0-9]+[A-Z]*)\b
MachineRuleLettersDigits ==
    Cat(<<Wb, RepFrom(Upper, 1), RepFrom(Space, 0), RepFrom(Digit, 1), RepFrom(Upper, 0), Wb>>)

MACHINE_PATTERNS ==
    << [line |-> 308, pattern |-> MachineRuleDSeries],
       [line |-> 310, pattern |-> MachineRuleLettersDigits] >>

\* The least length of a machine model.
MinModelLen == 2

\* The texts pattern.findall(text) returns (group 1 spans the whole match).
findall(re, s) ==
    LET ms == finditer(re, s, 1)
    IN  [j \in 1..Len(ms) |-> SubSeq(s, ms[j].start, ms[j].end - 1)]

\* extract_machine_info: the models found, upper-cased, as a set (the code
\* returns them as the sorted list under 'models'; no key when none is found).
extract_machine_info(s) ==
    UNION {{UpperCase(m) : m \in {x \in Range(findall(MACHINE_PATTERNS[k].pattern, s)) :
                                     Len(x) >= MinModelLen}} :
           k \in 1..Len(MACHINE_PATTERNS)}

StartsWith(s, p) == Len(s) >= Len(p) /\ SubSeq(s, 1, Len(p)) = p
EndsWith(s, p) == Len(s) >= Len(p) /\ SubSeq(s, Len(s) - Len(p) + 1, Len(s)) = p
StartsWithAny(s, ps) == \E p \in ps : StartsWith(s, p)

\* \b([A-Z0-9\-]{4,20})\b
PartTokenPattern == Cat(<<Wb, Rep(Cls(UpperLetters \cup Digits \cup {"-"}), 4, 20), Wb>>)

\* None, where a category is expected.
NoCategory == "None"

\* str.isdigit().
isdigit(s) == s # <<>> /\ \A i \in 1..Len(s) : s[i] \in Digits

\* The category one part number of the context gives, in the order of the
\* tests of _infer_category_from_part_number; NoCategory when no test holds.
CategoryOfPartNumber(pn, upper) ==
    IF \/ StartsWithAny(pn, {<<"C", "L", "P">>, <<"T", "B">>, <<"E", "S", "-">>, <<"M", "U", "F">>, <<"S", "A", "T">>, <<"S", "A", "A">>, <<"S", "A", "M", "A">>, <<"B", "R", "K">>})
       \/ (StartsWith(pn, <<"M">>) /\ "-" \in Range(pn) /\ isdigit(SubSeq(pn, 2, 4)))
       \/ StartsWith(pn, <<"4", "9", "1">>)
       \/ StartsWithAny(pn, {<<"R", "H", "H", "R">>, <<"T", "R">>, <<"3", "3", "1", "6", "5">>})
    THEN "Exhaust System"
    ELSE IF \/ StartsWithAny(pn, {<<"F", "L">>, <<"F", "L", "G">>, <<"T", "D", "F">>, <<"T", "D", "G">>})
            \/ Contains(upper, <<"C", "L", "A", "M", "P">>)
            \/ Contains(upper, <<"B", "R", "A", "C", "K", "E", "T">>)
    THEN "Fasteners & Hardware"
    ELSE IF \/ StartsWithAny(pn, {<<"T", "A", "-">>, <<"R", "T", "L", "O">>, <<"F", "R">>, <<"F", "S", "-">>, <<"K", "-">>})
            \/ Contains(upper, <<"T", "R", "A", "N", "S", "M", "I", "S", "S", "I", "O", "N">>)
            \/ Contains(upper, <<"F", "U", "L", "L", "E", "R">>)
    THEN "Transmission Components"
    ELSE IF \/ StartsWithAny(pn, {<<"M", "U">>, <<"A", "N">>, <<"N", "M", "U">>, <<"T", "K", "W">>})
            \/ EndsWith(pn, <<"X">>)
            \/ Contains(upper, <<"U", "-", "J", "O", "I", "N", "T">>)
            \/ Contains(upper, <<"C", "L", "U", "T", "C", "H">>)
            \/ Contains(upper, <<"Y", "O", "K", "E">>)
    THEN "Drivetrain"
    ELSE IF StartsWithAny(pn, {<<"D", "T">>, <<"D", "S">>, <<"R", "S">>, <<"C", "R", "0">>})
    THEN "Drivetrain"
    ELSE NoCategory

\* The loop of _infer_category_from_part_number over the numbers from j on.
RECURSIVE PartNumberLoop(_, _, _)
PartNumberLoop(pns, j, upper) ==
    IF j > Len(pns) THEN NoCategory
    ELSE LET c == CategoryOfPartNumber(pns[j], upper)
         IN  IF c # NoCategory THEN c ELSE PartNumberLoop(pns, j + 1, upper)

\* _infer_category_from_part_number.
_infer_category_from_part_number(context) ==
    PartNumberLoop(findall(PartTokenPattern, UpperCase(context)), 1, UpperCase(context))

\* category_indicators of _infer_category_from_context, in the order of the
\* dict: each category with its keywords.
category_indicators ==
    << [category |-> "Exhaust System", indicators |-> <<
            <<"e", "x", "h", "a", "u", "s", "t">>, <<"m", "u", "f", "f", "l", "e", "r">>,
            <<"c", "a", "t", "a", "l", "y", "t", "i", "c">>,
            <<"s", "p", "a", "r", "k", " ", "a", "r", "r", "e", "s", "t", "o", "r">>,
            <<"e", "x", "h", "a", "u", "s", "t", " ", "s", "t", "a", "c", "k">>,
            <<"c", "h", "r", "o", "m", "e", " ", "s", "t", "a", "c", "k">>,
            <<"f", "l", "a", "m", "e", " ", "p", "r", "o", "o", "f">>,
            <<"t", "a", "n", "k", "e", "r", " ", "k", "i", "t">>,
            <<"f", "l", "e", "x", "i", "b", "l", "e", " ", "t", "u", "b", "e">>,
            <<"e", "x", "h", "a", "u", "s", "t", " ", "p", "u", "r", "i", "f", "i", "e", "r">>,
            <<"n", "e", "l", "s", "o", "n", " ", "e", "x", "h", "a", "u", "s", "t">>,
            <<"d", "i", "e", "s", "e", "l", " ", "e", "x", "h", "a", "u", "s", "t">>>>],
       [category |-> "Brake System", indicators |-> <<
            <<"b", "r", "a", "k", "e">>, <<"r", "o", "t", "o", "r">>, <<"p", "a", "d">>,
            <<"c", "a", "l", "i", "p", "e", "r">>, <<"d", "i", "s", "c">>,
            <<"b", "r", "a", "k", "e", " ", "s", "y", "s", "t", "e", "m">>,
            <<"h", "y", "d", "r", "a", "u", "l", "i", "c", " ", "b", "r", "a", "k", "e">>,
            <<"b", "r", "a", "k", "e", " ", "a", "s", "s", "e", "m", "b", "l", "y">>,
            <<"b", "r", "a", "k", "e", " ", "k", "i", "t">>, <<"d", "a", "y", "t", "o", "n">>>>],
       [category |-> "Engine", indicators |-> <<
            <<"e", "n", "g", "i", "n", "e">>, <<"p", "i", "s", "t", "o", "n">>,
            <<"c", "y", "l", "i", "n", "d", "e", "r">>,
            <<"c", "r", "a", "n", "k", "s", "h", "a", "f", "t">>,
            <<"t", "u", "r", "b", "o", "c", "h", "a", "r", "g", "e", "r">>,
            <<"w", "a", "t", "e", "r", " ", "p", "u", "m", "p">>,
            <<"o", "i", "l", " ", "c", "o", "o", "l", "e", "r">>,
            <<"f", "u", "e", "l", " ", "i", "n", "j", "e", "c", "t", "i", "o", "n">>,
            <<"r", "o", "c", "k", "e", "r", " ", "a", "r", "m">>,
            <<"t", "i", "m", "i", "n", "g", " ", "c", "o", "v", "e", "r">>,
            <<"c", "y", "l", "i", "n", "d", "e", "r", " ", "h", "e", "a", "d">>,
            <<"d", "i", "e", "s", "e", "l">>, <<"m", "o", "t", "o", "r">>, <<"p", "a", "i">>>>],
       [category |-> "Drivetrain", indicators |-> <<
            <<"a", "x", "l", "e">>,
            <<"d", "i", "f", "f", "e", "r", "e", "n", "t", "i", "a", "l">>,
            <<"t", "r", "a", "n", "s", "m", "i", "s", "s", "i", "o", "n">>,
            <<"c", "l", "u", "t", "c", "h">>, <<"f", "l", "y", "w", "h", "e", "e", "l">>,
            <<"u", "-", "j", "o", "i", "n", "t">>, <<"y", "o", "k", "e">>,
            <<"d", "r", "i", "v", "e", "s", "h", "a", "f", "t">>,
            <<"t", "r", "a", "n", "s", "m", "i", "s", "s", "i", "o", "n", " ", "a", "s", "s", "e", "m", "b", "l", "y">>,
            <<"c", "l", "u", "t", "c", "h", " ", "a", "s", "s", "e", "m", "b", "l", "y">>,
            <<"p", "o", "w", "e", "r", "t", "r", "a", "i", "n">>>>],
       [category |-> "Transmission Components", indicators |-> <<
            <<"t", "r", "a", "n", "s", "m", "i", "s", "s", "i", "o", "n">>,
            <<"f", "u", "l", "l", "e", "r">>, <<"e", "a", "t", "o", "n">>,
            <<"r", "o", "a", "d", "r", "a", "n", "g", "e", "r">>,
            <<"c", "l", "u", "t", "c", "h", " ", "b", "r", "a", "k", "e">>,
            <<"p", "i", "l", "o", "t", " ", "b", "e", "a", "r", "i", "n", "g">>,
            <<"f", "l", "y", "w", "h", "e", "e", "l">>,
            <<"p", "a", "c", "i", "f", "i", "c", " ", "t", "r", "u", "c", "k">>>>],
       [category |-> "Mirrors & Visibility", indicators |-> <<
            <<"m", "i", "r", "r", "o", "r">>,
            <<"w", "e", "s", "t", " ", "c", "o", "a", "s", "t">>,
            <<"c", "o", "n", "v", "e", "x">>,
            <<"h", "o", "o", "d", " ", "m", "o", "u", "n", "t">>,
            <<"r", "e", "a", "r", " ", "c", "r", "o", "s", "s", " ", "v", "i", "e", "w">>,
            <<"2", "0", "2", "0", " ", "s", "y", "s", "t", "e", "m">>,
            <<"2", "0", "2", "0", "x", "g">>, <<"d", "u", "r", "a", "b", "a", "l", "l">>,
            <<"v", "e", "l", "v", "a", "c">>>>],
       [category |-> "Hydraulic System", indicators |-> <<
            <<"h", "y", "d", "r", "a", "u", "l", "i", "c">>, <<"p", "u", "m", "p">>,
            <<"v", "a", "l", "v", "e">>, <<"h", "o", "s", "e">>,
            <<"h", "y", "d", "r", "a", "u", "l", "i", "c", " ", "s", "y", "s", "t", "e", "m">>,
            <<"h", "y", "d", "r", "a", "u", "l", "i", "c", " ", "p", "u", "m", "p">>,
            <<"c", "o", "n", "t", "r", "o", "l", " ", "v", "a", "l", "v", "e">>,
            <<"p", "r", "e", "s", "s", "u", "r", "e", " ", "v", "a", "l", "v", "e">>>>],
       [category |-> "Electrical", indicators |-> <<
            <<"e", "l", "e", "c", "t", "r", "i", "c", "a", "l">>,
            <<"s", "e", "n", "s", "o", "r">>, <<"s", "w", "i", "t", "c", "h">>,
            <<"w", "i", "r", "e">>, <<"h", "a", "r", "n", "e", "s", "s">>,
            <<"a", "c", "t", "u", "a", "t", "o", "r">>, <<"m", "o", "t", "o", "r">>,
            <<"s", "w", "i", "t", "c", "h">>,
            <<"e", "l", "e", "c", "t", "r", "i", "c", "a", "l", " ", "s", "y", "s", "t", "e", "m">>,
            <<"w", "i", "r", "i", "n", "g">>, <<"c", "o", "n", "n", "e", "c", "t", "o", "r">>,
            <<"r", "e", "l", "a", "y">>>>],
       [category |-> "Air Intake System", indicators |-> <<
            <<"a", "i", "r", " ", "i", "n", "t", "a", "k", "e">>,
            <<"a", "i", "r", " ", "f", "i", "l", "t", "e", "r">>,
            <<"i", "n", "t", "a", "k", "e", " ", "m", "a", "n", "i", "f", "o", "l", "d">>,
            <<"t", "u", "r", "b", "o", " ", "i", "n", "t", "a", "k", "e">>,
            <<"a", "i", "r", " ", "s", "y", "s", "t", "e", "m">>,
            <<"a", "i", "r", " ", "f", "l", "o", "w">>>>],
       [category |-> "Cooling System", indicators |-> <<
            <<"r", "a", "d", "i", "a", "t", "o", "r">>, <<"c", "o", "o", "l", "a", "n", "t">>,
            <<"t", "h", "e", "r", "m", "o", "s", "t", "a", "t">>,
            <<"w", "a", "t", "e", "r", " ", "p", "u", "m", "p">>,
            <<"c", "o", "o", "l", "i", "n", "g", " ", "f", "a", "n">>,
            <<"h", "e", "a", "t", " ", "e", "x", "c", "h", "a", "n", "g", "e", "r">>,
            <<"c", "o", "o", "l", "i", "n", "g", " ", "s", "y", "s", "t", "e", "m">>>>],
       [category |-> "Suspension & Steering", indicators |-> <<
            <<"s", "u", "s", "p", "e", "n", "s", "i", "o", "n">>,
            <<"s", "t", "e", "e", "r", "i", "n", "g">>, <<"s", "h", "o", "c", "k">>,
            <<"s", "t", "r", "u", "t">>,
            <<"c", "o", "n", "t", "r", "o", "l", " ", "a", "r", "m">>,
            <<"b", "a", "l", "l", " ", "j", "o", "i", "n", "t">>,
            <<"t", "i", "e", " ", "r", "o", "d">>,
            <<"s", "t", "e", "e", "r", "i", "n", "g", " ", "g", "e", "a", "r">>>>],
       [category |-> "Fasteners & Hardware", indicators |-> <<
            <<"c", "l", "a", "m", "p">>, <<"b", "r", "a", "c", "k", "e", "t">>,
            <<"b", "o", "l", "t">>, <<"n", "u", "t">>, <<"s", "c", "r", "e", "w">>,
            <<"f", "a", "s", "t", "e", "n", "e", "r">>,
            <<"h", "a", "r", "d", "w", "a", "r", "e">>, <<"m", "o", "u", "n", "t">>,
            <<"b", "r", "a", "c", "k", "e", "t", " ", "a", "s", "s", "e", "m", "b", "l", "y">>>>],
       [category |-> "Filters & Fluids", indicators |-> <<
            <<"f", "i", "l", "t", "e", "r">>,
            <<"o", "i", "l", " ", "f", "i", "l", "t", "e", "r">>,
            <<"f", "u", "e", "l", " ", "f", "i", "l", "t", "e", "r">>,
            <<"a", "i", "r", " ", "f", "i", "l", "t", "e", "r">>,
            <<"l", "u", "b", "r", "i", "c", "a", "n", "t">>, <<"g", "r", "e", "a", "s", "e">>,
            <<"f", "l", "u", "i", "d">>>>],
       [category |-> "Lighting", indicators |-> <<
            <<"l", "i", "g", "h", "t">>, <<"h", "e", "a", "d", "l", "i", "g", "h", "t">>,
            <<"t", "a", "i", "l", "l", "i", "g", "h", "t">>,
            <<"m", "a", "r", "k", "e", "r", " ", "l", "i", "g", "h", "t">>, <<"l", "e", "d">>,
            <<"b", "u", "l", "b">>, <<"l", "i", "g", "h", "t", "i", "n", "g">>,
            <<"l", "a", "m", "p">>>>],
       [category |-> "Cab & Interior", indicators |-> <<
            <<"s", "e", "a", "t">>, <<"d", "a", "s", "h", "b", "o", "a", "r", "d">>,
            <<"i", "n", "t", "e", "r", "i", "o", "r">>, <<"c", "a", "b">>,
            <<"u", "p", "h", "o", "l", "s", "t", "e", "r", "y">>,
            <<"f", "l", "o", "o", "r", " ", "m", "a", "t">>,
            <<"s", "u", "n", " ", "v", "i", "s", "o", "r">>>>],
       [category |-> "Wheels & Tires", indicators |-> <<
            <<"w", "h", "e", "e", "l">>, <<"t", "i", "r", "e">>, <<"r", "i", "m">>,
            <<"h", "u", "b">>, <<"b", "e", "a", "r", "i", "n", "g">>,
            <<"w", "h", "e", "e", "l", " ", "b", "e", "a", "r", "i", "n", "g">>,
            <<"t", "i", "r", "e", " ", "c", "h", "a", "i", "n">>>>],
       [category |-> "Kits & Assemblies", indicators |-> <<
            <<"k", "i", "t">>, <<"a", "s", "s", "e", "m", "b", "l", "y">>, <<"s", "e", "t">>,
            <<"i", "n", "c", "l", "u", "d", "e", "s">>,
            <<"c", "o", "m", "p", "l", "e", "t", "e">>>>],
       [category |-> "OEM Parts", indicators |-> <<
            <<"o", "e", "m">>, <<"o", "e", " ", "n", "u", "m", "b", "e", "r">>,
            <<"o", "r", "i", "g", "i", "n", "a", "l", " ", "e", "q", "u", "i", "p", "m", "e", "n", "t">>,
            <<"m", "a", "k">>, <<"a", "m", "b">>, <<"s", "c", "h">>>>],
       [category |-> "Heavy Duty Components", indicators |-> <<
            <<"h", "e", "a", "v", "y", " ", "d", "u", "t", "y">>,
            <<"p", "a", "c", "i", "f", "i", "c", " ", "t", "r", "u", "c", "k">>,
            <<"p", "o", "w", "e", "r", "t", "r", "a", "i", "n">>,
            <<"d", "r", "i", "v", "e", "t", "r", "a", "i", "n", " ", "e", "x", "p", "e", "r", "t", "s">>>>] >>

\* The loop of _infer_category_from_context over the categories from k on.
RECURSIVE CategoryLoop(_, _)
CategoryLoop(k, context_lower) ==
    IF k > Len(category_indicators) THEN "General"
    ELSE IF \E i \in 1..Len(category_indicators[k].indicators) :
                Contains(context_lower, category_indicators[k].indicators[i])
         THEN category_indicators[k].category
         ELSE CategoryLoop(k + 1, context_lower)

\* Index of a category in category_indicators.
CategoryIndex(name) ==
    CHOOSE k \in 1..Len(category_indicators) : category_indicators[k].category = name

\* _infer_category_from_context that asks for the keywords of Kits &
\* Assemblies before the table is walked.
_infer_category_from_context_KitsFirst(context_lower) ==
    IF \E i \in 1..Len(category_indicators[CategoryIndex("Kits & Assemblies")].indicators) :
           Contains(context_lower,
                    category_indicators[CategoryIndex("Kits & Assemblies")].indicators[i])
    THEN "Kits & Assemblies"
    ELSE CategoryLoop(1, context_lower)

\* _infer_category_from_context.
_infer_category_from_context(context_lower) == CategoryLoop(1, context_lower)

\* _infer_category that hands the context to the keyword tier as it was
\* written, without lower-casing it.
_infer_category_CaseSensitive(context) ==
    IF context = <<>> THEN "General"
    ELSE LET category_from_part == _infer_category_from_part_number(context)
         IN  IF category_from_part \notin {NoCategory, "General"}
             THEN category_from_part
             ELSE _infer_category_from_context(context)

\* CatalogExtractor._infer_category.
_infer_category(context) ==
    IF context = <<>> THEN "General"
    ELSE LET category_from_part == _infer_category_from_part_number(context)
         IN  IF category_from_part \notin {NoCategory, "General"}
             THEN category_from_part
             ELSE _infer_category_from_context(LowerCase(context))

\* The part records the page loop of process_pdf makes of the text of page
\* page_num: none for a text without a visible character, else one per
\* candidate of extract_part_info (description is the candidate's context).
PartRecordsOfText(pdf_name, s, page_num) ==
    IF Strip(s) = <<>> THEN <<>>
    ELSE LET found == extract_part_info(s, page_num)
         IN  [i \in 1..Len(found) |->
                 [catalog_name |-> pdf_name, part_number |-> found[i].number,
                  part_type |-> found[i].type, description |-> found[i].context,
                  page |-> page_num, category |-> _infer_category(found[i].context),
                  machine_info |-> extract_machine_info(s)]]

-----------------------------------------------------------------------------
(* The stand-alone extractor script extract_pdf_toc_fixed.py: its own rule *)
(* list, extract_part_info and is_valid_part.                              *)

\* \b(\d{5,7}[A-Z]?)\b
TocRuleNumeric == Cat(<<Wb, Rep(Digit, 5, 7), Opt(Upper), Wb>>)
\* \b([A-Z]{2,}-[A-Z0-9]+(?:-[A-Z0-9]+)?)\b
TocRuleDashed ==
    Cat(<<Wb, RepFrom(Upper, 2), Ch("-"), RepFrom(Cls(UpperLetters \cup Digits), 1),
          Opt(Cat(<<Ch("-"), RepFrom(Cls(UpperLetters \cup Digits), 1)>>)), Wb>>)
\* \b(?:KIT|PK)[-_]?(\d+[A-Z]?)\b, in two parts: what stands before the
\* group, and the group with the closing \b.
TocKitPrefix ==
    Cat(<<Wb, Alt(<<Word(<<"K", "I", "T">>), Word(<<"P", "K">>)>>), Opt(Cls({"-", "_"}))>>)
TocKitGroup == Cat(<<RepFrom(Digit, 1), Opt(Upper), Wb>>)
TocRuleKit == Cat(<<TocKitPrefix, TocKitGroup>>)
\* \b([A-Z0-9]+/[A-Z0-9]+)\b
TocRuleSlash ==
    Cat(<<Wb, RepFrom(Cls(UpperLetters \cup Digits), 1), Ch("/"),
          RepFrom(Cls(UpperLetters \cup Digits), 1), Wb>>)

\* PART_NUMBER_PATTERNS of the script, in list order; ignorecase is re.I,
\* prefix is the part of the pattern before group 1 and group the rest
\* (the prefix is empty when only \b, which has no width, stands before).
Toc_PART_NUMBER_PATTERNS ==
    << [pattern |-> RuleGeneralPart, prefix |-> Cat(<<>>), group |-> RuleGeneralPart, ignorecase |-> FALSE, tag |-> "part"],
       [pattern |-> TocRuleNumeric,  prefix |-> Cat(<<>>), group |-> TocRuleNumeric, ignorecase |-> FALSE, tag |-> "part"],
       [pattern |-> TocRuleDashed,   prefix |-> Cat(<<>>), group |-> TocRuleDashed, ignorecase |-> FALSE, tag |-> "part"],
       [pattern |-> TocRuleKit,      prefix |-> TocKitPrefix, group |-> TocKitGroup, ignorecase |-> TRUE, tag |-> "kit"],
       [pattern |-> RuleModel,       prefix |-> Cat(<<>>), group |-> RuleModel, ignorecase |-> FALSE, tag |-> "model"],
       [pattern |-> RuleCaliper,     prefix |-> Cat(<<>>), group |-> RuleCaliper, ignorecase |-> TRUE,  tag |-> "caliper"],
       [pattern |-> RuleChKit,       prefix |-> Cat(<<>>), group |-> RuleChKit, ignorecase |-> TRUE,  tag |-> "kit"],
       [pattern |-> TocRuleSlash,    prefix |-> Cat(<<>>), group |-> TocRuleSlash, ignorecase |-> FALSE, tag |-> "part"] >>

\* match.start(1): the first end of the prefix, in the matcher's order, from
\* which the group and what follows it match.
GroupStart(rule, su, m) ==
    LET pe == Ends(rule.prefix, su, m.start)
        ok == {j \in 1..Len(pe) : Ends(rule.group, su, pe[j]) # <<>>}
    IN  pe[CHOOSE j \in ok : \A h \in ok : j <= h]

\* int() of a string of digits.
DigitVal(c) == CHOOSE n \in 0..9 : <<"0", "1", "2", "3", "4", "5", "6", "7", "8", "9">>[n + 1] = c
RECURSIVE int(_)
int(s) == IF s = <<>> THEN 0 ELSE 10 * int(SubSeq(s, 1, Len(s) - 1)) + DigitVal(s[Len(s)])

\* The filter of extract_part_info: numbers it drops before looking for a
\* context.
TocMinLen == 3
TocMinInt == 1000
TocMaxInt == 99999999
TocStopWords ==
    {<<"C", "O", "N", "T", "E", "N", "T", "S">>, <<"C", "H", "A", "P", "T", "E", "R">>,
     <<"S", "E", "C", "T", "I", "O", "N">>, <<"P", "A", "G", "E">>}
TocObviousNonPart(number) ==
    \/ Len(number) < TocMinLen
    \/ isdigit(number) /\ (int(number) < TocMinInt \/ int(number) > TocMaxInt)
    \/ number \in TocStopWords

\* The context of a number: the first line that holds the number (the
\* upper-cased number), stripped, whitespace collapsed, cut to 250; else the
\* raw text 100 characters around the match, stripped.
TocContext(s, number, m) ==
    LET lines == SplitLines(s)
        hits == {k \in 1..Len(lines) : Contains(lines[k], number)}
        context == IF hits = {} THEN <<>>
                   ELSE Truncate(SubSpaces(Strip(lines[CHOOSE h \in hits : \A g \in hits : h <= g])),
                                 ContextBudget)
    IN  IF context # <<>> THEN context
        ELSE LET start == IF m.start - 1 - ContextWindow > 0 THEN m.start - ContextWindow ELSE 1
                 end == IF m.end - 1 + ContextWindow < Len(s) THEN m.end - 1 + ContextWindow ELSE Len(s)
             IN  Strip(SubSeq(s, start, end))

\* The inner loop of extract_part_info over the matches of one rule.
RECURSIVE TocRuleCandidates(_, _, _, _, _)
TocRuleCandidates(rule, ms, j, s, su) ==
    IF j > Len(ms) THEN <<>>
    ELSE LET number == Strip(UpperCase(SubSeq(s, GroupStart(rule, su, ms[j]), ms[j].end - 1)))
             rest == TocRuleCandidates(rule, ms, j + 1, s, su)
         IN  IF TocObviousNonPart(number) THEN rest
             ELSE <<[type |-> rule.tag, number |-> number,
                     context |-> TocContext(s, number, ms[j])]>> \o rest

\* The outer loop of extract_part_info, from rule k on.
RECURSIVE TocRulesLoop(_, _)
TocRulesLoop(k, s) ==
    IF k > Len(Toc_PART_NUMBER_PATTERNS) THEN <<>>
    ELSE LET rule == Toc_PART_NUMBER_PATTERNS[k]
             su == IF rule.ignorecase THEN UpperCase(s) ELSE s
         IN  TocRuleCandidates(rule, finditer(rule.pattern, su, 1), 1, s, su)
             \o TocRulesLoop(k + 1, s)

\* extract_part_info(text, page_number) of the script.
Toc_extract_part_info(s) == TocRulesLoop(1, s)

\* is_valid_part(part_data, catalog_type) of the script.
TocMinPartLen == 4
DaytonPrefixes == {<<"D">>, <<"6", "0", "0", "-">>, <<"C", "H">>}
is_valid_part(part_data, ctype) ==
    LET pn == part_data.number
    IN  IF \/ re_search(DatePattern, pn, FALSE)
           \/ re_search(PageNumberPattern, pn, FALSE)
           \/ re_search(CommonWordPattern, pn, TRUE)
        THEN FALSE
        ELSE IF ctype = "caterpillar" THEN Len(pn) >= TocMinPartLen /\ ~isdigit(pn)
        ELSE IF ctype = "dayton" THEN \E prefix \in DaytonPrefixes : Contains(pn, prefix)
        ELSE Len(pn) >= TocMinPartLen

\* valid_parts of the page loop: the candidates is_valid_part keeps.
valid_parts(s, ctype) ==
    SelectSeq(Toc_extract_part_info(s), LAMBDA p : is_valid_part(p, ctype))

-----------------------------------------------------------------------------
(* The texts the recognizers are called with, and their calls.             *)

\* Bound: length of the generated texts.
MaxTextLen == 4

\* Texts and numbers the recognizer is called with.
TextCH5004 == <<"C", "H", "5", "0", "0", "4">>
TextD1234 == <<"D", "1", "2", "3", "4">>
Text600 == <<"6", "0", "0", "-", "1", "2", "3", "A">>
TextAB1 == <<"A", "B", "1", "-", "1", "2", "3", "4">>
TextLowerCh == <<"c", "h", "5", "0", "0", "4">>
TextSpaced == <<" ", "C", "H", "5", "0", "0", "4", " ">>
TextTwo == <<"C", "H", "5", "0", "0", "4", " ", "D", "1", "2", "3", "4">>
TextYear == <<"2", "0", "2", "3">>
TextTwelve == <<"1", "2">>
TextChapter == <<"C", "H", "A", "P", "T", "E", "R">>
TextChapterLower == <<"c", "h", "a", "p", "t", "e", "r">>
TextFigMixed == <<"F", "i", "g">>
TextYearInside == <<"F", "P", "-", "2", "0", "1", "5">>
TextYearAfter600 == <<"6", "0", "0", "-", "2", "0", "2", "3">>


\* Texts for the two paths of _extract_context: a number alone on a line
\* longer than the budget, and numbers that span a line break (no line holds
\* them), one short and one of 54 characters inside a long text.
Repeat(c, n) == [i \in 1..n |-> c]
TextLongLine == TextCH5004 \o <<" ">> \o Repeat("x", 300)
TextSchBreak == <<"S", "C", "H", "\n", "1", "2", "3", "4">>
TextSchLong ==
    Repeat("x", 99) \o <<" ", "S", "C", "H">> \o Repeat(" ", 24) \o <<"\n">>
        \o Repeat("1", 26) \o <<" ">> \o Repeat("y", 99)

StringsUpTo(alphabet, n) == UNION {[1..k -> alphabet] : k \in 0..n}

Texts ==
    StringsUpTo({"C", "H", "5", "0", "-"}, MaxTextLen)
    \cup {TextCH5004, TextD1234, Text600, TextAB1, TextLowerCh, TextSpaced, TextTwo,
          TextYear, TextChapter, TextLongLine, TextSchBreak, TextSchLong}

Numbers ==
    StringsUpTo({"1", "9", "2", "0", "A"}, MaxTextLen)
    \cup {TextCH5004, TextD1234, Text600, TextYear, TextTwelve, TextChapter,
          TextChapterLower, TextFigMixed, TextYearInside, TextYearAfter600}
    \cup {CommonWords[i] : i \in 1..Len(CommonWords)}

\* Bound: words of a generated context.
MaxContextWords == 3

\* ' '.join(words).
RECURSIVE JoinWords(_)
JoinWords(ws) ==
    IF Len(ws) = 0 THEN <<>>
    ELSE IF Len(ws) = 1 THEN ws[1]
    ELSE ws[1] \o <<" ">> \o JoinWords(Tail(ws))

\* Lines of catalog pages.
TextKitLine == <<"K", "i", "t", " ", "C", "H", "5", "0", "0", "4", " ", "f", "i", "t", "s", " ", "D", "5", "0", ",", " ", "D", "5", "2", " ", "b", "r", "a", "k", "e", "s">>
TextDaytonLine == <<"D", "5", "0", " ", "b", "r", "a", "k", "e", " ", "a", "s", "s", "e", "m", "b", "l", "y", " ", "w", "i", "t", "h", " ", "6", "0", "0", "-", "1", "2", "3", " ", "c", "a", "l", "i", "p", "e", "r", " ", "a", "n", "d", " ", "C", "H", "5", "6", "7", "8", " ", "k", "i", "t">>
PageTexts == {TextKitLine, TextDaytonLine, TextCH5004, TextTwo, TextSpaced, <<>>, <<" ">>}

\* Contexts handed to _infer_category: up to MaxContextWords words.
ContextWords ==
    {<<"b", "r", "a", "k", "e">>, <<"B", "r", "a", "k", "e">>, <<"k", "i", "t">>, <<"K", "I", "T">>, <<"r", "o", "t", "o", "r">>, <<"a", "s", "s", "e", "m", "b", "l", "y">>, <<"e", "x", "h", "a", "u", "s", "t">>, <<"c", "l", "a", "m", "p">>,
     <<"M", "A", "T", "R", "I", "X">>, <<"F", "R", "-", "1", "2", "3">>, <<"C", "H", "5", "0", "0", "4">>, <<"b", "o", "l", "t">>}
Contexts == {JoinWords(ws) : ws \in SeqsUpTo(ContextWords, MaxContextWords)}

\* Page texts handed to the stand-alone script, and its catalog types.
TextKits == <<"K", "I", "T", "-", "1", "2", "3", " ", "p", "k", "4", "5", "6", "a", " ", "K", "I", "T", "_", "9">>
TextNumeric == <<"1", "2", "3", "4", "5", "6", " ", "0", "0", "0", "1", "2", " ", "1", "2", "3", "4", "5", "6", "7", "A", " ", "2", "0", "1", "5">>
TextDashed == <<"F", "P", "-", "1", "2", "3", "4", "-", "A", "B", "C", " ", "a", "b", "/", "1", "2", " ", "A", "B", "/", "1", "2">>
TextShort == <<"D", "6", " ", "D", "6", "H", " ", "3", "4", "0", "6", "B", " ", "C", "1", "5">>
TocTexts == {TextDaytonLine, TextKitLine, TextKits, TextNumeric, TextDashed, TextShort, TextTwo,
             TextChapter, Text600}
CatalogTypes == {"dayton", "caterpillar", "fort_pro", "general"}

\* The page loop of process_pdf is applied to the text drawn, as page 1 of
\* the catalog catA.
ProcessPageText ==
    /\ called = "none"
    /\ recog_text \in PageTexts
    /\ page_parts' = PartRecordsOfText("catA", recog_text, 1)
    /\ machine_info' = IF Strip(recog_text) = <<>> THEN {} ELSE extract_machine_info(recog_text)
    /\ called' = "process_pdf"
    /\ UNCHANGED <<recog_text, part_info, part_num, valid, category, catalog_type>>
    /\ UNCHANGED <<mergeVars, extractVars, batchVars, imageVars, guideTextVars, migrationVars>>

\* _infer_category is applied to the context drawn.
InferCategory ==
    /\ called = "none"
    /\ recog_text \in Contexts
    /\ category' = _infer_category(recog_text)
    /\ called' = "_infer_category"
    /\ UNCHANGED <<recog_text, part_info, part_num, valid, page_parts, machine_info, catalog_type>>
    /\ UNCHANGED <<mergeVars, extractVars, batchVars, imageVars, guideTextVars, migrationVars>>

\* The page loop of the stand-alone script: extract_part_info, then the
\* candidates is_valid_part keeps for the catalog type detected.
ExtractAndValidate ==
    /\ called = "none"
    /\ recog_text \in TocTexts
    /\ \E ctype \in CatalogTypes :
          /\ part_info' = valid_parts(recog_text, ctype)
          /\ catalog_type' = ctype
    /\ called' = "valid_parts"
    /\ UNCHANGED <<recog_text, part_num, valid, page_parts, machine_info, category>>
    /\ UNCHANGED <<mergeVars, extractVars, batchVars, imageVars, guideTextVars, migrationVars>>

\* extract_part_info is applied to the text drawn, as the text of a page.
ExtractPartInfo ==
    /\ called = "none"
    /\ recog_text \in Texts
    /\ \E page_number \in 1..MaxPages :
          part_info' = extract_part_info(recog_text, page_number)
    /\ called' = "extract_part_info"
    /\ UNCHANGED <<recog_text, part_num, valid, page_parts, machine_info, category, catalog_type>>
    /\ UNCHANGED <<mergeVars, extractVars, batchVars, imageVars, guideTextVars, migrationVars>>

\* _is_valid_part is applied to the number drawn.
IsValidPart ==
    /\ called = "none"
    /\ part_num # NULL
    /\ valid' = _is_valid_part(part_num)
    /\ called' = "_is_valid_part"
    /\ UNCHANGED <<recog_text, part_info, part_num, page_parts, machine_info, category, catalog_type>>
    /\ UNCHANGED <<mergeVars, extractVars, batchVars, imageVars, guideTextVars, migrationVars>>

\* A text or a number is drawn; nothing has been applied to it yet.
RecogInit ==
    /\ \/ recog_text \in Texts \cup PageTexts \cup Contexts \cup TocTexts /\ part_num = NULL
       \/ recog_text = NULL /\ part_num \in Numbers
    /\ part_info = <<>>
    /\ valid = FALSE
    /\ called = "none"
    /\ page_parts = <<>>
    /\ machine_info = {}
    /\ category = ""
    /\ catalog_type = ""
    /\ BatchIdle
    /\ ImageIdle
    /\ GuideTextIdle
    /\ MigrationIdle
    /\ parts = {}
    /\ before = {}
    /\ lastOp = "init"
    /\ inserts = 0
    /\ pdf = NoDocument
    /\ catalog_data = <<>>
    /\ guide_data = <<>>

RecogNext ==
    ExtractPartInfo \/ IsValidPart \/ ProcessPageText \/ InferCategory \/ ExtractAndValidate

RecogSpec == RecogInit /\ [][RecogNext]_vars

-----------------------------------------------------------------------------
(* Images and the parts near them: SmartImageExtractor of                  *)
(* process_images.py and the image filter of CatalogExtractor.             *)
(* Coordinates are whole numbers; the center (a + b) / 2 of an interval is *)
(* kept doubled, as a + b, and so is every distance between centers.       *)

Abs(n) == IF n < 0 THEN 0 - n ELSE n

\* SmartImageExtractor._is_valid_part.
Smart_is_valid_part(pn) ==
    IF \/ re_search(DatePattern, pn, TRUE)
       \/ re_search(PageNumberPattern, pn, TRUE)
       \/ re_search(CommonWordPattern, pn, TRUE)
    THEN FALSE
    ELSE Len(pn) >= MinPartLen

\* SmartImageExtractor._extract_context: the text from 50 characters before
\* the match to 50 after it, stripped.
SmartContextWindow == 50
Smart_extract_context(s, m) ==
    LET context_start == IF m.start - 1 - SmartContextWindow > 0
                         THEN m.start - 1 - SmartContextWindow ELSE 0
        context_end == IF m.end - 1 + SmartContextWindow < Len(s)
                       THEN m.end - 1 + SmartContextWindow ELSE Len(s)
    IN  Strip(SubSeq(s, context_start + 1, context_end))

\* The inner loop of _extract_parts_from_text over the matches of one rule;
\* every part is given the base confidence 1.0, kept in hundredths.
RECURSIVE SmartRuleParts(_, _, _, _)
SmartRuleParts(rule, ms, j, s) ==
    IF j > Len(ms) THEN <<>>
    ELSE LET pn == Strip(UpperCase(SubSeq(s, ms[j].start, ms[j].end - 1)))
             rest == SmartRuleParts(rule, ms, j + 1, s)
         IN  IF Smart_is_valid_part(pn)
             THEN <<[part_number |-> pn, part_type |-> rule.tag,
                     context |-> Smart_extract_context(s, ms[j]), confidence |-> 100]>> \o rest
             ELSE rest

RECURSIVE SmartRulesLoop(_, _)
SmartRulesLoop(k, s) ==
    IF k > Len(PART_NUMBER_PATTERNS) THEN <<>>
    ELSE SmartRuleParts(PART_NUMBER_PATTERNS[k],
                        finditer(PART_NUMBER_PATTERNS[k].pattern, s, 1), 1, s)
         \o SmartRulesLoop(k + 1, s)

\* SmartImageExtractor._extract_parts_from_text.
_extract_parts_from_text(s) == SmartRulesLoop(1, s)

\* How near a span must be, per axis, and the distance at which the
\* confidence reaches 0.
NearLimit == 200
ConfidenceSpan == 400

\* The doubled distances d for which 1 - (d / 2) / 400 lies half-way between
\* two hundredths and round(..., 2) of the binary double goes up; at the
\* other half-way points it goes down.
TiesRoundedUp ==
    {52, 60, 68, 76, 84, 92, 100, 164, 172, 180, 188, 196, 228, 236, 244, 252,
     260, 268, 276, 284, 292, 380, 388, 396, 452, 460, 468, 476, 484, 492, 500,
     556, 564, 572, 580, 588, 596, 652, 660, 668, 676, 684, 692, 756, 764, 772,
     780, 788, 796}

\* Mutant of Confidence: the sum of the distances is divided by 200.
Confidence_Span200(distance2) ==
    LET exact4 == IF 2 * ConfidenceSpan - 2 * distance2 < 0 THEN 0
                  ELSE 2 * ConfidenceSpan - 2 * distance2
    IN  (exact4 \div 8) + (IF exact4 % 8 > 4 THEN 1 ELSE 0)

\* round(max(0, 1 - (distance_x + distance_y) / 400), 2), in hundredths, of
\* the doubled sum of the distances: 100 * (1 - d / 800) = (800 - d) / 8.
Confidence(distance2) ==
    LET exact8 == IF 2 * ConfidenceSpan - distance2 < 0 THEN 0
                  ELSE 2 * ConfidenceSpan - distance2
    IN  (exact8 \div 8)
        + (IF exact8 % 8 > 4 \/ (exact8 % 8 = 4 /\ distance2 \in TiesRoundedUp) THEN 1 ELSE 0)

\* The doubled distances of the center of a span from the center of the
\* image, per axis.
DistanceX2(block, img_rect) ==
    Abs((block.bbox[1] + block.bbox[3]) - (img_rect[1] + img_rect[3]))
DistanceY2(block, img_rect) ==
    Abs((block.bbox[2] + block.bbox[4]) - (img_rect[2] + img_rect[4]))

\* distance_x < 200 and distance_y < 200.
IsNear(block, img_rect) ==
    DistanceX2(block, img_rect) < 2 * NearLimit /\ DistanceY2(block, img_rect) < 2 * NearLimit

\* The loop of _find_nearby_part_numbers over the spans from span k on: the
\* parts of every near span, with the confidence of the span.  Each entry
\* also records the span it came from and its doubled distance.
RECURSIVE NearbyLoop(_, _, _)
NearbyLoop(text_blocks, k, img_rect) ==
    IF k > Len(text_blocks) THEN <<>>
    ELSE LET block == text_blocks[k]
             distance2 == DistanceX2(block, img_rect) + DistanceY2(block, img_rect)
             parts_in_block == _extract_parts_from_text(block.text)
         IN  (IF IsNear(block, img_rect)
              THEN [i \in 1..Len(parts_in_block) |->
                       [part_number |-> parts_in_block[i].part_number,
                        part_type |-> parts_in_block[i].part_type,
                        context |-> parts_in_block[i].context,
                        confidence |-> Confidence(distance2),
                        span |-> k, distance2 |-> distance2]]
              ELSE <<>>)
             \o NearbyLoop(text_blocks, k + 1, img_rect)

\* unique_parts that keeps the first entry of every part number.
RECURSIVE UniqueParts_KeepFirst(_, _, _)
UniqueParts_KeepFirst(nearby, k, acc) ==
    IF k > Len(nearby) THEN acc
    ELSE IF \E i \in 1..Len(acc) : acc[i].part_number = nearby[k].part_number
         THEN UniqueParts_KeepFirst(nearby, k + 1, acc)
         ELSE UniqueParts_KeepFirst(nearby, k + 1, Append(acc, nearby[k]))

\* The dict unique_parts, as the sequence of its values in insertion order:
\* an entry replaces the one of its part number when its confidence is
\* greater.
RECURSIVE UniqueParts(_, _, _)
UniqueParts(nearby, k, acc) ==
    IF k > Len(nearby) THEN acc
    ELSE LET part == nearby[k]
             at == {i \in 1..Len(acc) : acc[i].part_number = part.part_number}
         IN  IF at = {} THEN UniqueParts(nearby, k + 1, Append(acc, part))
             ELSE LET i == CHOOSE h \in at : TRUE
                  IN  IF part.confidence > acc[i].confidence
                      THEN UniqueParts(nearby, k + 1, [acc EXCEPT ![i] = part])
                      ELSE UniqueParts(nearby, k + 1, acc)

\* sorted(..., key=confidence, reverse=True): a stable sort, greatest first.
InsertByConfidence(sorted, part) ==
    LET n == Cardinality({i \in 1..Len(sorted) : sorted[i].confidence >= part.confidence})
    IN  SubSeq(sorted, 1, n) \o <<part>> \o SubSeq(sorted, n + 1, Len(sorted))
RECURSIVE SortedByConfidence(_)
SortedByConfidence(seq) ==
    IF seq = <<>> THEN <<>>
    ELSE InsertByConfidence(SortedByConfidence(SubSeq(seq, 1, Len(seq) - 1)), seq[Len(seq)])

\* SmartImageExtractor._find_nearby_part_numbers.
_find_nearby_part_numbers(text_blocks, img_rect) ==
    IF text_blocks = <<>> THEN <<>>
    ELSE SortedByConfidence(UniqueParts(NearbyLoop(text_blocks, 1, img_rect), 1, <<>>))

\* The least width and height of an image, in pixels.
MinImageSide == 50

\* _is_full_page_image that never finds a full-page image.
_is_full_page_image_Never(pix, page) == FALSE

\* SmartImageExtractor._is_full_page_image: image_area > page_area * 0.8.
_is_full_page_image(pix, page) ==
    10 * (pix.width * pix.height) > 8 * (page.width * page.height)

\* The test of extract_images_with_parts on an image: fewer than four
\* colour channels, at least 50 pixels each way, not a full-page image.
PassesSizeFilters(pix, page) ==
    /\ pix.channels < 4
    /\ pix.width >= MinImageSide /\ pix.height >= MinImageSide
    /\ ~_is_full_page_image(pix, page)

\* _get_image_rect: the bounding box of the image on the page, or the
\* default rectangle when it cannot be had.
DefaultRect == <<0, 0, 100, 100>>
_get_image_rect(img) == IF img.has_bbox THEN img.bbox ELSE DefaultRect

\* The loop of extract_images_with_parts over the images of a page, from
\* image k on; an image whose pixmap cannot be made is skipped.
RECURSIVE ImagesLoop(_, _, _)
ImagesLoop(page, k, acc) ==
    IF k > Len(page.images) THEN acc
    ELSE LET pix == page.images[k]
             nearby == _find_nearby_part_numbers(page.blocks, _get_image_rect(pix))
         IN  IF ~pix.raises /\ PassesSizeFilters(pix, page) /\ nearby # <<>>
             THEN ImagesLoop(page, k + 1,
                     [saved |-> acc.saved \cup
                                   {[index |-> k, width |-> pix.width, height |-> pix.height]},
                      results |-> acc.results \o
                          [i \in 1..Len(nearby) |->
                              [pdf_name |-> "catA", page_number |-> 1, image_index |-> k,
                               image_width |-> pix.width, image_height |-> pix.height,
                               part_number |-> nearby[i].part_number,
                               part_type |-> nearby[i].part_type,
                               context |-> nearby[i].context,
                               confidence |-> nearby[i].confidence]]])
             ELSE ImagesLoop(page, k + 1, acc)

\* SmartImageExtractor.extract_images_with_parts on a document of one page.
extract_images_with_parts(page) == ImagesLoop(page, 1, [saved |-> {}, results |-> <<>>])

\* Limits of CatalogExtractor._is_part_image: the smallest side of a part
\* image, and how far from its center a span counts as near.
SmallSide == 50
PartTextNearX == 200
PartTextNearY == 100

\* label_regexes of _extract_part_images, compiled with re.IGNORECASE and
\* searched in lower-cased text.
label_regexes ==
    << \* \b(fig|figure|table|page|section|chapter)\b
       Cat(<<Wb, Alt(<<Word(<<"f", "i", "g">>), Word(<<"f", "i", "g", "u", "r", "e">>),
                       Word(<<"t", "a", "b", "l", "e">>), Word(<<"p", "a", "g", "e">>),
                       Word(<<"s", "e", "c", "t", "i", "o", "n">>),
                       Word(<<"c", "h", "a", "p", "t", "e", "r">>)>>), Wb>>),
       \* \b\d+\.\d+\b
       Cat(<<Wb, RepFrom(Digit, 1), Ch("."), RepFrom(Digit, 1), Wb>>),
       \* ^[IVX]+\.?$
       Cat(<<Bol, RepFrom(Cls({"i", "v", "x", "I", "V", "X"}), 1), Opt(Ch(".")), Eol>>),
       \* \bcontinued\b, \bnote:\b, \bwarning:\b, \bcaution:\b
       Cat(<<Wb, Word(<<"c", "o", "n", "t", "i", "n", "u", "e", "d">>), Wb>>),
       Cat(<<Wb, Word(<<"n", "o", "t", "e", ":">>), Wb>>),
       Cat(<<Wb, Word(<<"w", "a", "r", "n", "i", "n", "g", ":">>), Wb>>),
       Cat(<<Wb, Word(<<"c", "a", "u", "t", "i", "o", "n", ":">>), Wb>>) >>

\* part_indicators of _is_part_image.
part_indicators ==
    << \* \b\d{4,}[a-z]?\b
       Cat(<<Wb, RepFrom(Digit, 4), Opt(Cls(LowerLetters)), Wb>>),
       \* \b[a-z]{2,3}-\d{4}\b
       Cat(<<Wb, Rep(Cls(LowerLetters), 2, 3), Ch("-"), Rep(Digit, 4, 4), Wb>>),
       \* \b(part|component|assembly|kit|set)\b
       Cat(<<Wb, Alt(<<Word(<<"p", "a", "r", "t">>),
                       Word(<<"c", "o", "m", "p", "o", "n", "e", "n", "t">>),
                       Word(<<"a", "s", "s", "e", "m", "b", "l", "y">>),
                       Word(<<"k", "i", "t">>), Word(<<"s", "e", "t">>)>>), Wb>>),
       \* \b(mm|inch|dimension|size)\b
       Cat(<<Wb, Alt(<<Word(<<"m", "m">>), Word(<<"i", "n", "c", "h">>),
                       Word(<<"d", "i", "m", "e", "n", "s", "i", "o", "n">>),
                       Word(<<"s", "i", "z", "e">>)>>), Wb>>) >>

\* nearby_text of _is_part_image: the text of every span, from span k on,
\* whose center is less than 200 across and 100 down from the center of the
\* image, a space after each (centers are kept doubled).
RECURSIVE NearbyText(_, _, _)
NearbyText(page, img_rect, k) ==
    IF k > Len(page.blocks) THEN <<>>
    ELSE (IF /\ DistanceX2(page.blocks[k], img_rect) < 2 * PartTextNearX
             /\ DistanceY2(page.blocks[k], img_rect) < 2 * PartTextNearY
          THEN page.blocks[k].text \o <<" ">> ELSE <<>>)
         \o NearbyText(page, img_rect, k + 1)

\* The content test of _is_part_image: no label pattern is found in the
\* lower-cased nearby text and a part indicator is.  When no indicator is
\* found the rules of the pattern bank are searched next: they are compiled
\* patterns and re.search is given re.IGNORECASE with them, which raises
\* ValueError at the first rule; the handler of _is_part_image returns False.
ContentSaysPart(img_rect, page) ==
    LET nearby_text_lower == LowerCase(NearbyText(page, img_rect, 1))
    IN  IF \E k \in 1..Len(label_regexes) : re_search(label_regexes[k], nearby_text_lower, FALSE)
        THEN FALSE
        ELSE IF \E k \in 1..Len(part_indicators) :
                    re_search(part_indicators[k], nearby_text_lower, FALSE)
        THEN TRUE
        ELSE FALSE

\* CatalogExtractor._is_part_image on the rectangle <<x0, y0, x1, y1>>.
_is_part_image(img_rect, page) ==
    LET x0 == img_rect[1]
        y0 == img_rect[2]
        x1 == img_rect[3]
        y1 == img_rect[4]
        img_width == x1 - x0
        img_height == y1 - y0
    IN  IF img_width < SmallSide \/ img_height < SmallSide THEN FALSE
        ELSE IF 10 * img_width > 9 * page.width /\ 10 * img_height > 9 * page.height THEN FALSE
        ELSE IF 100 * y0 < 15 * page.height \/ 100 * y1 > 85 * page.height THEN FALSE
        ELSE ContentSaysPart(img_rect, page)

\* The loop of _extract_part_images over the images of page 1, from image k
\* on: a part image is saved and its path is written to every part of the
\* page.
RECURSIVE PartImagesLoop(_, _, _)
PartImagesLoop(page, k, acc) ==
    IF k > Len(page.images) THEN acc
    ELSE LET pix == page.images[k]
         IN  IF /\ ~pix.raises
                /\ pix.channels < 4
                /\ _is_part_image(<<0, 0, pix.width, pix.height>>, page)
             THEN PartImagesLoop(page, k + 1,
                     [saved |-> acc.saved \cup
                                   {[index |-> k, width |-> pix.width, height |-> pix.height]},
                      paths |-> [i \in 1..Len(acc.paths) |->
                                    IF acc.paths[i].page = 1
                                    THEN [acc.paths[i] EXCEPT !.image_index = k]
                                    ELSE acc.paths[i]]])
             ELSE PartImagesLoop(page, k + 1, acc)

\* The parts of the catalog before its images are extracted: image_index 0
\* is no image.
PartsOfCatalog ==
    << [part_number |-> TextCH5004, page |-> 1, image_index |-> 0],
       [part_number |-> TextD1234, page |-> 2, image_index |-> 0] >>

\* CatalogExtractor._extract_part_images on a document of one page.
_extract_part_images(page) ==
    PartImagesLoop(page, 1, [saved |-> {}, paths |-> PartsOfCatalog])

\* Spans of a page: a text and its bounding box <<x0, y0, x1, y1>>.
TextBrake == <<"B", "r", "a", "k", "e">>
TextFigureKit == <<"F", "i", "g", "u", "r", "e", " ", "2", " ", "k", "i", "t">>
SpanTexts == {TextCH5004, TextD1234, TextTwo, TextBrake}
SpanBoxes ==
    {<<40, 45, 60, 55>>, <<40, 45, 61, 55>>, <<42, 45, 62, 55>>, <<66, 45, 86, 55>>,
     <<240, 240, 259, 259>>, <<240, 45, 260, 55>>, <<40, 245, 60, 255>>,
     <<239, 45, 259, 55>>, <<200, 150, 300, 250>>}
Spans == {[text |-> t, bbox |-> b] : t \in SpanTexts, b \in SpanBoxes}
ImageRects == {DefaultRect, <<100, 100, 300, 300>>}

\* Bound: spans handed to _find_nearby_part_numbers.
MaxSpans == 2
\* Bound: images of a page.
MaxImages == 2

\* Images of a page: the pixmap's width, height and colour channels
\* (pix.n - pix.alpha), whether making the pixmap raises, and its bounding
\* box on the page if it can be had.
Pix(w, h, c, r, hb, bb) ==
    [width |-> w, height |-> h, channels |-> c, raises |-> r, has_bbox |-> hb, bbox |-> bb]
PageImages ==
    {Pix(100, 80, 3, FALSE, FALSE, NoRect), Pix(49, 100, 3, FALSE, FALSE, NoRect),
     Pix(100, 49, 3, FALSE, FALSE, NoRect), Pix(90, 90, 3, FALSE, FALSE, NoRect),
     Pix(60, 60, 1, FALSE, TRUE, <<100, 100, 300, 300>>),
     Pix(60, 60, 4, FALSE, FALSE, NoRect), Pix(50, 50, 3, FALSE, FALSE, NoRect),
     Pix(60, 60, 3, TRUE, FALSE, NoRect)}
PageSpans ==
    {[text |-> TextCH5004, bbox |-> <<40, 45, 60, 55>>],
     [text |-> TextBrake, bbox |-> <<40, 45, 60, 55>>],
     [text |-> TextD1234, bbox |-> <<240, 45, 260, 55>>],
     [text |-> TextTwo, bbox |-> <<200, 150, 300, 250>>],
     [text |-> TextFigureKit, bbox |-> <<40, 45, 60, 55>>]}
PageSizes == {<<100, 100>>, <<600, 800>>}
ImagePages ==
    {[width |-> sz[1], height |-> sz[2], blocks |-> bs, images |-> is] :
        sz \in PageSizes, bs \in SeqsUpTo(PageSpans, 1), is \in SeqsUpTo(PageImages, MaxImages)}

\* _find_nearby_part_numbers is applied to the spans and the rectangle drawn.
FindNearbyPartNumbers ==
    /\ img_called = "none"
    /\ in_rect # NoRect
    /\ nearby_parts' = NearbyLoop(in_blocks, 1, in_rect)
    /\ unique_parts' = _find_nearby_part_numbers(in_blocks, in_rect)
    /\ img_called' = "_find_nearby_part_numbers"
    /\ UNCHANGED <<img_page, in_blocks, in_rect, img_results, saved_images, image_paths>>
    /\ UNCHANGED <<mergeVars, extractVars, batchVars, recogVars, guideTextVars, migrationVars>>

\* extract_images_with_parts is applied to the page drawn.
ExtractImagesWithParts ==
    /\ img_called = "none"
    /\ img_page # NoPage
    /\ LET out == extract_images_with_parts(img_page)
       IN  img_results' = out.results /\ saved_images' = out.saved
    /\ img_called' = "extract_images_with_parts"
    /\ UNCHANGED <<img_page, in_blocks, in_rect, nearby_parts, unique_parts, image_paths>>
    /\ UNCHANGED <<mergeVars, extractVars, batchVars, recogVars, guideTextVars, migrationVars>>

\* _extract_part_images is applied to the page drawn.
ExtractPartImages ==
    /\ img_called = "none"
    /\ img_page # NoPage
    /\ LET out == _extract_part_images(img_page)
       IN  saved_images' = out.saved /\ image_paths' = out.paths
    /\ img_called' = "_extract_part_images"
    /\ UNCHANGED <<img_page, in_blocks, in_rect, nearby_parts, unique_parts, img_results>>
    /\ UNCHANGED <<mergeVars, extractVars, batchVars, recogVars, guideTextVars, migrationVars>>

\* Either the spans and a rectangle are drawn, or a page is.
ImageInit ==
    /\ \/ /\ in_blocks \in SeqsUpTo(Spans, MaxSpans)
          /\ in_rect \in ImageRects
          /\ img_page = NoPage
       \/ /\ in_blocks = <<>>
          /\ in_rect = NoRect
          /\ img_page \in ImagePages
    /\ img_called = "none"
    /\ nearby_parts = <<>>
    /\ unique_parts = <<>>
    /\ img_results = <<>>
    /\ saved_images = {}
    /\ image_paths = <<>>
    /\ BatchIdle
    /\ RecogIdle
    /\ GuideTextIdle
    /\ MigrationIdle
    /\ parts = {}
    /\ before = {}
    /\ lastOp = "init"
    /\ inserts = 0
    /\ pdf = NoDocument
    /\ catalog_data = <<>>
    /\ guide_data = <<>>

ImageNext == FindNearbyPartNumbers \/ ExtractImagesWithParts \/ ExtractPartImages

ImageSpec == ImageInit /\ [][ImageNext]_vars

-----------------------------------------------------------------------------
(* The text functions of GuideExtractor: specification keys, the           *)
(* specifications of a page text and the related parts of a guide.         *)

\* str.replace(old, new): every occurrence of old, from the left, without
\* overlap.
RECURSIVE Replace(_, _, _)
Replace(s, old, new) ==
    IF Len(s) < Len(old) THEN s
    ELSE IF SubSeq(s, 1, Len(old)) = old
         THEN new \o Replace(SubSeq(s, Len(old) + 1, Len(s)), old, new)
         ELSE <<s[1]>> \o Replace(Tail(s), old, new)

\* str.capitalize(): the first character upper-cased, the rest lower-cased.
Capitalize(s) ==
    [i \in 1..Len(s) |-> IF i = 1 THEN ToUpper(s[i]) ELSE ToLower(s[i])]

\* The replacements of _clean_spec_key, in the order of the dict.
replacements ==
    << [short |-> <<"m", "a", "x">>, full |-> <<"m", "a", "x", "i", "m", "u", "m">>],
       [short |-> <<"m", "i", "n">>, full |-> <<"m", "i", "n", "i", "m", "u", "m">>],
       [short |-> <<"t", "e", "m", "p">>, full |-> <<"t", "e", "m", "p", "e", "r", "a", "t", "u", "r", "e">>],
       [short |-> <<"v", "o", "l", "t">>, full |-> <<"v", "o", "l", "t", "a", "g", "e">>],
       [short |-> <<"a", "m", "p">>, full |-> <<"a", "m", "p", "e", "r", "a", "g", "e">>],
       [short |-> <<"r", "p", "m">>, full |-> <<"s", "p", "e", "e", "d">>],
       [short |-> <<"p", "s", "i">>, full |-> <<"p", "r", "e", "s", "s", "u", "r", "e">>],
       [short |-> <<"h", "p">>, full |-> <<"h", "o", "r", "s", "e", "p", "o", "w", "e", "r">>] >>

\* The loop of _clean_spec_key over the replacements from entry k on.
RECURSIVE ReplacementsLoop(_, _)
ReplacementsLoop(k, spec_key) ==
    IF k > Len(replacements) THEN spec_key
    ELSE IF Contains(spec_key, replacements[k].short)
         THEN ReplacementsLoop(k + 1, Replace(spec_key, replacements[k].short, replacements[k].full))
         ELSE ReplacementsLoop(k + 1, spec_key)

\* GuideExtractor._clean_spec_key.
_clean_spec_key(spec_key) == Capitalize(ReplacementsLoop(1, Strip(LowerCase(spec_key))))

\* GuideExtractor._is_valid_spec.
MinKeyLen == 2
SpecFalsePositives ==
    {<<"p", "a", "g", "e">>, <<"f", "i", "g", "u", "r", "e">>, <<"t", "a", "b", "l", "e">>,
     <<"c", "h", "a", "p", "t", "e", "r">>, <<"s", "e", "c", "t", "i", "o", "n">>}
_is_valid_spec(spec_key, spec_value) ==
    IF Len(spec_key) < MinKeyLen \/ isdigit(spec_key) THEN FALSE
    ELSE IF spec_key \in SpecFalsePositives THEN FALSE
    ELSE TRUE

\* spec_patterns, each as the sequence of its pieces: group 1 is the first
\* piece and group 2 the third.
WordCh == Cls(WordChars)
NumberCh == Cls(Digits \cup {"."})
\* (\w+)\s*[=:]\s*([\d\.]+)\s*(\w+)
SpecKeyValueUnit ==
    << RepFrom(WordCh, 1), Cat(<<RepFrom(Space, 0), Cls({"=", ":"}), RepFrom(Space, 0)>>),
       RepFrom(NumberCh, 1), RepFrom(Space, 0), RepFrom(WordCh, 1) >>
\* ([\d\.]+)\s*(\w+)\s*([\w\s]+)
SpecValueUnitKey ==
    << RepFrom(NumberCh, 1), RepFrom(Space, 0), RepFrom(WordCh, 1), RepFrom(Space, 0),
       RepFrom(Cls(WordChars \cup {" ", "\t", "\n"}), 1) >>
\* (\w+)\s*[-...]\s*([\d\.]+)\s*(\w+): the class holds the dash and the
\* three characters the source file has after it, written here by their
\* code points.
SpecKeyDashValue ==
    << RepFrom(WordCh, 1),
       Cat(<<RepFrom(Space, 0), Cls({"-", "U+00E2", "U+20AC", "U+201C"}), RepFrom(Space, 0)>>),
       RepFrom(NumberCh, 1), RepFrom(Space, 0), RepFrom(WordCh, 1) >>
spec_patterns == <<SpecKeyValueUnit, SpecValueUnitKey, SpecKeyDashValue>>

\* The first way, in the matcher's order, to match the pieces from piece k on
\* at position i: the positions where the pieces begin and end, or <<>>.
RECURSIVE FirstPath(_, _, _, _)
RECURSIVE TryEnds(_, _, _, _, _, _)
FirstPath(segs, k, s, i) ==
    IF k > Len(segs) THEN <<i>>
    ELSE TryEnds(Ends(segs[k], s, i), 1, segs, k, s, i)
TryEnds(ends, j, segs, k, s, i) ==
    IF j > Len(ends) THEN <<>>
    ELSE LET rest == FirstPath(segs, k + 1, s, ends[j])
         IN  IF rest # <<>> THEN <<i>> \o rest
             ELSE TryEnds(ends, j + 1, segs, k, s, i)

\* re.finditer for a pattern given by its pieces: the paths of the matches,
\* leftmost first, without overlap.
RECURSIVE SpecMatches(_, _, _)
SpecMatches(segs, s, pos) ==
    IF pos > Len(s) THEN <<>>
    ELSE LET path == FirstPath(segs, 1, s, pos)
         IN  IF path = <<>> THEN SpecMatches(segs, s, pos + 1)
             ELSE <<path>> \o SpecMatches(segs, s, path[Len(path)])

\* specs[key] = value.
DictPut(d, k, v) == [x \in (DOMAIN d) \cup {k} |-> IF x = k THEN v ELSE d[x]]

\* The inner loop of _extract_specifications over the matches of a pattern.
RECURSIVE SpecsOfMatches(_, _, _, _)
SpecsOfMatches(ms, j, s, acc) ==
    IF j > Len(ms) THEN acc
    ELSE LET spec_key == _clean_spec_key(Strip(SubSeq(s, ms[j][1], ms[j][2] - 1)))
             spec_value == Strip(SubSeq(s, ms[j][3], ms[j][4] - 1))
         IN  IF _is_valid_spec(spec_key, spec_value)
             THEN SpecsOfMatches(ms, j + 1, s, DictPut(acc, spec_key, spec_value))
             ELSE SpecsOfMatches(ms, j + 1, s, acc)

\* The outer loop of _extract_specifications over the patterns.
RECURSIVE SpecPatternsLoop(_, _, _)
SpecPatternsLoop(k, s, acc) ==
    IF k > Len(spec_patterns) THEN acc
    ELSE SpecPatternsLoop(k + 1, s,
             SpecsOfMatches(SpecMatches(spec_patterns[k], s, 1), 1, s, acc))

\* GuideExtractor._extract_specifications.
_extract_specifications(s) == SpecPatternsLoop(1, s, EmptyDict)

\* part_patterns of GuideExtractor.
\* \b([A-Z]{1,5}\d{2,5}[A-Z]?\d?)\b
GuideRuleStandard ==
    Cat(<<Wb, Rep(Upper, 1, 5), Rep(Digit, 2, 5), Opt(Upper), Opt(Digit), Wb>>)
\* \b(\d{3,4}[A-Z]{1,3}\d?)\b
GuideRuleNumeric == Cat(<<Wb, Rep(Digit, 3, 4), Rep(Upper, 1, 3), Opt(Digit), Wb>>)
\* \b([A-Z]+\-\d+[A-Z]?)\b
GuideRuleDash == Cat(<<Wb, RepFrom(Upper, 1), Ch("-"), RepFrom(Digit, 1), Opt(Upper), Wb>>)
\* \b(\d+[A-Z]+\d*)\b
GuideRuleAlphanumeric == Cat(<<Wb, RepFrom(Digit, 1), RepFrom(Upper, 1), RepFrom(Digit, 0), Wb>>)
part_patterns ==
    <<GuideRuleStandard, GuideRuleNumeric, GuideRuleDash, GuideRuleAlphanumeric>>

\* GuideExtractor._is_valid_part.
GuideMinPartLen == 4
Guide_is_valid_part(pn) ==
    IF \/ re_search(DatePattern, pn, TRUE)
       \/ re_search(PageNumberPattern, pn, TRUE)
       \/ re_search(CommonWordPattern, pn, TRUE)
    THEN FALSE
    ELSE Len(pn) >= GuideMinPartLen

\* The loops of _extract_related_parts: the valid numbers of the matches of
\* every pattern, in order.
RECURSIVE RelatedOfMatches(_, _, _)
RelatedOfMatches(ms, j, s) ==
    IF j > Len(ms) THEN <<>>
    ELSE LET pn == Strip(UpperCase(SubSeq(s, ms[j].start, ms[j].end - 1)))
         IN  (IF Guide_is_valid_part(pn) THEN <<pn>> ELSE <<>>) \o RelatedOfMatches(ms, j + 1, s)
RECURSIVE RelatedLoop(_, _)
RelatedLoop(k, s) ==
    IF k > Len(part_patterns) THEN <<>>
    ELSE RelatedOfMatches(finditer(part_patterns[k], s, 1), 1, s) \o RelatedLoop(k + 1, s)

\* GuideExtractor._extract_related_parts.
_extract_related_parts(s) == RelatedLoop(1, s)

\* The related parts process_guide_pdf collects: those of the first page,
\* then those of every page with visible text, and the set of them all.
RECURSIVE RelatedOfPages(_, _)
RelatedOfPages(page_texts, k) ==
    IF k > Len(page_texts) THEN <<>>
    ELSE (IF Strip(page_texts[k]) = <<>> THEN <<>> ELSE _extract_related_parts(page_texts[k]))
         \o RelatedOfPages(page_texts, k + 1)
RelatedPartsOfGuide(page_texts) ==
    Range(_extract_related_parts(page_texts[1]) \o RelatedOfPages(page_texts, 1))

\* str.isupper(): a cased character occurs and no cased character is lower
\* case.
isupper(s) ==
    /\ \E i \in 1..Len(s) : s[i] \in UpperLetters
    /\ \A i \in 1..Len(s) : s[i] \notin LowerLetters

\* re.match(pattern, string): a match that begins at the first character.
re_match(re, s) == Ends(re, s, 1) # <<>>

\* ^\d+\.
SectionNumbered == Cat(<<Bol, RepFrom(Digit, 1), Ch(".")>>)
\* ^[A-Z][a-z]+(?:\s+[A-Z][a-z]+)*$
SectionTitleCase ==
    Cat(<<Bol, Upper, RepFrom(Cls(LowerLetters), 1),
          RepFrom(Cat(<<RepFrom(Cls({" ", "\t", "\n"}), 1), Upper,
                        RepFrom(Cls(LowerLetters), 1)>>), 0),
          Eol>>)

\* The header test of _extract_sections on a stripped line.
MaxHeaderLen == 100
IsSectionHeader(line) ==
    /\ Len(line) < MaxHeaderLen
    /\ \/ isupper(line)
       \/ re_match(SectionNumbered, line)
       \/ re_match(SectionTitleCase, line)

\* The loop of _extract_sections over the lines from k on; current_section is
\* <<>> for None, else the one section being filled.
RECURSIVE SectionsLoop(_, _, _, _, _)
SectionsLoop(lines, k, page_num, current_section, sections) ==
    IF k > Len(lines)
    THEN IF current_section # <<>> THEN sections \o current_section ELSE sections
    ELSE LET line == Strip(lines[k])
         IN  IF IsSectionHeader(line)
             THEN SectionsLoop(lines, k + 1, page_num,
                      <<[title |-> line, page |-> page_num, content |-> <<>>]>>,
                      IF current_section # <<>> THEN sections \o current_section
                                                ELSE sections)
             ELSE IF current_section # <<>>
             THEN SectionsLoop(lines, k + 1, page_num,
                      <<[current_section[1] EXCEPT !.content = @ \o line \o <<" ">>]>>,
                      sections)
             ELSE SectionsLoop(lines, k + 1, page_num, current_section, sections)

\* _extract_sections that does not append the section being filled when the
\* next header starts: only the last section of the page is returned.
_extract_sections_LastOnly(s, page_num) ==
    LET all == SectionsLoop(SplitLines(s), 1, page_num, <<>>, <<>>)
    IN  IF all = <<>> THEN <<>> ELSE <<all[Len(all)]>>

\* GuideExtractor._extract_sections.
_extract_sections(s, page_num) == SectionsLoop(SplitLines(s), 1, page_num, <<>>, <<>>)


\* Keys, page texts and guides the functions are called with.
SpecKeys ==
    {<<"m", "a", "x">>,
     <<"M", "A", "X">>,
     <<"M", "a", "x">>,
     <<"m", "a", "x", "i", "m", "u", "m">>,
     <<"M", "a", "x", "i", "m", "u", "m">>,
     <<"m", "i", "n">>,
     <<"M", "I", "N">>,
     <<"m", "i", "n", "i", "m", "u", "m">>,
     <<"t", "e", "m", "p">>,
     <<"T", "e", "m", "p">>,
     <<"t", "e", "m", "p", "e", "r", "a", "t", "u", "r", "e">>,
     <<"v", "o", "l", "t">>,
     <<"V", "O", "L", "T">>,
     <<"v", "o", "l", "t", "a", "g", "e">>,
     <<"a", "m", "p">>,
     <<"A", "M", "P">>,
     <<"a", "m", "p", "e", "r", "a", "g", "e">>,
     <<"r", "p", "m">>,
     <<"R", "P", "M">>,
     <<"s", "p", "e", "e", "d">>,
     <<"p", "s", "i">>,
     <<"P", "S", "I">>,
     <<"p", "r", "e", "s", "s", "u", "r", "e">>,
     <<"h", "p">>,
     <<"H", "P">>,
     <<"h", "o", "r", "s", "e", "p", "o", "w", "e", "r">>,
     <<" ", "M", "a", "x", " ">>,
     <<"m", "a", "x", " ", "t", "e", "m", "p">>,
     <<"p", "a", "g", "e">>,
     <<"s", "t", "a", "m", "p">>}
SpecTexts ==
    {<<"P", "a", "g", "e", ":", " ", "1", "2", " ", "o", "f">>,
     <<"m", "a", "x", " ", "=", " ", "1", "0", "0", " ", "p", "s", "i">>,
     <<"M", "a", "x", "i", "m", "u", "m", ":", " ", "5", " ", "m", "m">>,
     <<"R", "P", "M", ":", " ", "1", "5", "0", "0", " ", "r", "e", "v">>,
     <<"1", "2", ".", "5", " ", "m", "m", " ", "w", "i", "d", "t", "h">>,
     <<"1", "5", "0", "0", " ", "r", "p", "m", " ", "s", "p", "e", "e", "d">>,
     <<"x", " ", "=", " ", "5", " ", "m", "m">>,
     <<"F", "i", "g", "u", "r", "e", " ", "-", " ", "3", " ", "s", "h", "o", "w", "s">>,
     <<"T", "A", "B", "L", "E", ":", " ", "4", " ", "l", "i", "s", "t", "s">>,
     <<"7", ":", " ", "5", " ", "m", "m">>,
     <<"r", "p", "m", ":", " ", "9", " ", "a", " ", "M", "A", "X", ":", " ", "8", " ", "b">>,
     <<"M", "a", "x", ":", " ", "1", " ", "a", " ", "m", "a", "x", ":", " ", "2", " ", "b">>}
Text3406B == <<"3", "4", "0", "6", "B">>
TextD50 == <<"D", "5", "0">>
GuideTexts ==
    {Text600, TextAB1, TextCH5004, TextD1234, TextTwo, Text3406B, TextD50,
     TextKitLine, TextDaytonLine, <<>>}
\* Lines of guide pages: headers of the three kinds, near misses, body lines,
\* an empty line, and upper-case lines of 99 and 100 characters.
SectionLines ==
    {<<"S", "A", "F", "E", "T", "Y">>, <<" ", "1", ".", " ", "S", "c", "o", "p", "e">>,
     <<"B", "r", "a", "k", "e", " ", "P", "a", "d", "s">>,
     <<"B", "r", "a", "k", "e", " ", "p", "a", "d", "s">>,
     <<"1", " ", "S", "c", "o", "p", "e">>, <<"t", "h", "e", " ", "p", "a", "d">>,
     <<"1", "2">>, <<>>, <<"A", "1", " ">>,
     Repeat("A", MaxHeaderLen - 1), Repeat("A", MaxHeaderLen)}
\* text of a page: up to MaxSectionLines lines joined by newlines.
MaxSectionLines == 3
RECURSIVE JoinLines(_)
JoinLines(ls) ==
    IF Len(ls) = 0 THEN <<>>
    ELSE IF Len(ls) = 1 THEN ls[1]
    ELSE ls[1] \o <<"\n">> \o JoinLines(Tail(ls))
SectionTexts == {JoinLines(ls) : ls \in SeqsUpTo(SectionLines, MaxSectionLines) \ {<<>>}}
SectionPageNums == {1, 2}

\* Bound: pages of a guide.
MaxGuidePages == 2
GuidePageTexts == SeqsUpTo(GuideTexts, MaxGuidePages) \ {<<>>}

\* _clean_spec_key is applied to the key drawn.
CleanSpecKey ==
    /\ gt_called = "none"
    /\ gt_page_num = 0
    /\ gt_text \in SpecKeys
    /\ clean_key' = _clean_spec_key(gt_text)
    /\ gt_called' = "_clean_spec_key"
    /\ UNCHANGED <<gt_text, gt_pages, spec_map, guide_related, gt_page_num, gt_sections>>
    /\ UNCHANGED <<mergeVars, extractVars, batchVars, recogVars, imageVars, migrationVars>>

\* _extract_specifications is applied to the page text drawn.
ExtractSpecifications ==
    /\ gt_called = "none"
    /\ gt_page_num = 0
    /\ gt_text \in SpecTexts
    /\ spec_map' = _extract_specifications(gt_text)
    /\ gt_called' = "_extract_specifications"
    /\ UNCHANGED <<gt_text, gt_pages, clean_key, guide_related, gt_page_num, gt_sections>>
    /\ UNCHANGED <<mergeVars, extractVars, batchVars, recogVars, imageVars, migrationVars>>

\* process_guide_pdf collects the related parts of the pages drawn.
CollectRelatedParts ==
    /\ gt_called = "none"
    /\ gt_pages # <<>>
    /\ guide_related' = RelatedPartsOfGuide(gt_pages)
    /\ gt_called' = "process_guide_pdf"
    /\ UNCHANGED <<gt_text, gt_pages, clean_key, spec_map, gt_page_num, gt_sections>>
    /\ UNCHANGED <<mergeVars, extractVars, batchVars, recogVars, imageVars, migrationVars>>

\* _extract_sections is applied to the page text and page number drawn.
ExtractSections ==
    /\ gt_called = "none"
    /\ gt_page_num \in SectionPageNums
    /\ gt_sections' = _extract_sections(gt_text, gt_page_num)
    /\ gt_called' = "_extract_sections"
    /\ UNCHANGED <<gt_text, gt_pages, clean_key, spec_map, guide_related, gt_page_num>>
    /\ UNCHANGED <<mergeVars, extractVars, batchVars, recogVars, imageVars, migrationVars>>

\* A key, a page text, a page text with its number, or the pages of a guide
\* are drawn.
GuideTextInit ==
    /\ \/ gt_text \in SpecKeys \cup SpecTexts /\ gt_pages = <<>> /\ gt_page_num = 0
       \/ gt_text = NULL /\ gt_pages \in GuidePageTexts /\ gt_page_num = 0
       \/ gt_text \in SectionTexts /\ gt_pages = <<>> /\ gt_page_num \in SectionPageNums
    /\ gt_sections = <<>>
    /\ gt_called = "none"
    /\ clean_key = NULL
    /\ spec_map = EmptyDict
    /\ guide_related = {}
    /\ BatchIdle
    /\ RecogIdle
    /\ ImageIdle
    /\ MigrationIdle
    /\ parts = {}
    /\ before = {}
    /\ lastOp = "init"
    /\ inserts = 0
    /\ pdf = NoDocument
    /\ catalog_data = <<>>
    /\ guide_data = <<>>

GuideTextNext ==
    CleanSpecKey \/ ExtractSpecifications \/ CollectRelatedParts \/ ExtractSections

GuideTextSpec == GuideTextInit /\ [][GuideTextNext]_vars

-----------------------------------------------------------------------------
(* The parts migrations: MSSQLMigrationService.migrate_parts_data and       *)
(* StandaloneResumeMigration.migrate_parts_data_resume.  A source row is    *)
(* its rowid; a target row is the rowid of the source row it was copied     *)
(* from (the target's own id is an IDENTITY column).                        *)

\* Bound: the largest rowid of the source table.
MaxSourceRowid == 5
\* Bound: self.batch_size, 5000 in both classes, scaled down.
BatchSize == 2
\* Bound: the batch size of the retry, 1000 in the script, scaled down.
ReducedBatchSize == 1
\* Bound: how many times the service's migration is started.
MaxMigrationRuns == 2

\* The rowids of S in ascending order (ORDER BY rowid).
RECURSIVE OrderByRowid(_)
OrderByRowid(S) ==
    IF S = {} THEN <<>>
    ELSE LET least == CHOOSE r \in S : \A q \in S : r <= q
         IN  <<least>> \o OrderByRowid(S \ {least})

\* SELECT rowid FROM parts ORDER BY rowid LIMIT 1 OFFSET target_count:
\* <<rowid>>, or <<>> for the None of an offset past the last row.
_find_start_rowid(source, target_count) ==
    IF target_count < Cardinality(source)
    THEN <<OrderByRowid(source)[target_count + 1]>>
    ELSE <<>>

\* The script's copy of the same query.
_get_rowid_at_count(source, target_count) ==
    IF target_count < Cardinality(source)
    THEN <<OrderByRowid(source)[target_count + 1]>>
    ELSE <<>>

\* SELECT * FROM parts WHERE rowid > last_rowid ORDER BY rowid LIMIT batch_size.
SelectBatch(source, last_rowid, batch_size) ==
    LET rest == OrderByRowid({r \in source : r > last_rowid})
    IN  SubSeq(rest, 1, IF Len(rest) < batch_size THEN Len(rest) ELSE batch_size)

\* last_rowid after the loop over the batch.  SELECT * names the key column
\* id, so part_dict holds no 'rowid' and every row of the batch makes
\* last_rowid = part_dict.get('rowid', last_rowid + 1) add one.
LastRowidAfter(last_rowid, batch) == last_rowid + Len(batch)

\* migrate_parts_data up to its loop: the counts are read, a target that
\* holds as many rows as the source ends the run, and the loop starts at the
\* rowid found at the offset of the target's count.
StartMigrateParts ==
    /\ mig_script = "service"
    /\ mig_pc # "loop"
    /\ mig_runs < MaxMigrationRuns
    /\ mig_runs' = mig_runs + 1
    /\ mig_running' = TRUE
    /\ mig_batch_size' = BatchSize
    /\ LET total_parts_src == Cardinality(mig_source)
           current_mssql_count == Len(mig_target)
           start_rowid == _find_start_rowid(mig_source, current_mssql_count)
       IN  /\ mig_count' = current_mssql_count
           /\ IF current_mssql_count >= total_parts_src
              THEN mig_pc' = "done" /\ UNCHANGED <<mig_last_rowid, mig_start_rowid>>
              ELSE IF start_rowid = <<>>
                   THEN mig_pc' = "no resume point"
                        /\ UNCHANGED <<mig_last_rowid, mig_start_rowid>>
                   ELSE /\ mig_pc' = "loop"
                        /\ mig_last_rowid' = start_rowid[1]
                        /\ mig_start_rowid' = start_rowid[1]
    /\ UNCHANGED <<mig_script, mig_source, mig_target, mig_failed>>
    /\ UNCHANGED <<mergeVars, extractVars, batchVars, recogVars, imageVars, guideTextVars>>

\* MigrationController.stop, called while the migration runs.
StopMigration ==
    /\ mig_script = "service"
    /\ mig_pc = "loop"
    /\ mig_running
    /\ mig_running' = FALSE
    /\ UNCHANGED <<mig_script, mig_source, mig_target, mig_pc, mig_batch_size,
                   mig_last_rowid, mig_count, mig_start_rowid, mig_failed, mig_runs>>
    /\ UNCHANGED <<mergeVars, extractVars, batchVars, recogVars, imageVars, guideTextVars>>

\* One iteration of the loop of migrate_parts_data, from one check_continue
\* to the next: a stop ends the run, an empty batch ends it as complete, an
\* insert that raises is rolled back and ends it, and otherwise the batch is
\* inserted and committed.
MigrateBatch ==
    /\ mig_script = "service"
    /\ mig_pc = "loop"
    /\ IF ~mig_running
       THEN /\ mig_pc' = "stopped"
            /\ UNCHANGED <<mig_target, mig_last_rowid, mig_count, mig_failed>>
       ELSE LET batch == SelectBatch(mig_source, mig_last_rowid, mig_batch_size)
            IN  IF batch = <<>>
                THEN /\ mig_pc' = "done"
                     /\ UNCHANGED <<mig_target, mig_last_rowid, mig_count, mig_failed>>
                ELSE \E raises \in BOOLEAN :
                        /\ mig_last_rowid' = LastRowidAfter(mig_last_rowid, batch)
                        /\ IF raises
                           THEN /\ mig_pc' = "failed"
                                /\ mig_failed' = TRUE
                                /\ UNCHANGED <<mig_target, mig_count>>
                           ELSE /\ mig_target' = mig_target \o batch
                                /\ mig_count' = mig_count + Len(batch)
                                /\ UNCHANGED <<mig_pc, mig_failed>>
    /\ UNCHANGED <<mig_script, mig_source, mig_running, mig_batch_size, mig_start_rowid,
                   mig_runs>>
    /\ UNCHANGED <<mergeVars, extractVars, batchVars, recogVars, imageVars, guideTextVars>>

\* migrate_parts_data_resume up to its loop, called with the count drawn.
StartResume ==
    /\ mig_script = "resume"
    /\ mig_pc = "idle"
    /\ mig_runs' = mig_runs + 1
    /\ mig_batch_size' = BatchSize
    /\ LET start_from_count == mig_count
           start_rowid == _get_rowid_at_count(mig_source, start_from_count)
       IN  IF start_rowid = <<>>
           THEN mig_pc' = "no resume point" /\ UNCHANGED <<mig_last_rowid, mig_start_rowid>>
           ELSE /\ mig_pc' = "loop"
                /\ mig_last_rowid' = start_rowid[1]
                /\ mig_start_rowid' = start_rowid[1]
    /\ UNCHANGED <<mig_script, mig_source, mig_target, mig_running, mig_count, mig_failed>>
    /\ UNCHANGED <<mergeVars, extractVars, batchVars, recogVars, imageVars, guideTextVars>>

\* One iteration of the loop of migrate_parts_data_resume: an empty batch
\* ends the run; last_rowid is moved past the batch while the parameters are
\* built; the insert either commits, or raises and is rolled back, and then
\* the loop goes on with the reduced batch size or, the size being reduced
\* already, the run aborts.
ResumeBatch ==
    /\ mig_script = "resume"
    /\ mig_pc = "loop"
    /\ LET batch == SelectBatch(mig_source, mig_last_rowid, mig_batch_size)
       IN  IF batch = <<>>
           THEN /\ mig_pc' = "done"
                /\ UNCHANGED <<mig_target, mig_last_rowid, mig_count, mig_failed,
                               mig_batch_size>>
           ELSE \E raises \in BOOLEAN :
                   /\ mig_last_rowid' = LastRowidAfter(mig_last_rowid, batch)
                   /\ IF raises
                      THEN /\ mig_failed' = TRUE
                           /\ UNCHANGED <<mig_target, mig_count>>
                           /\ IF mig_batch_size > ReducedBatchSize
                              THEN mig_batch_size' = ReducedBatchSize /\ UNCHANGED mig_pc
                              ELSE mig_pc' = "failed" /\ UNCHANGED mig_batch_size
                      ELSE /\ mig_target' = mig_target \o batch
                           /\ mig_count' = mig_count + Len(batch)
                           /\ UNCHANGED <<mig_pc, mig_failed, mig_batch_size>>
    /\ UNCHANGED <<mig_script, mig_source, mig_running, mig_start_rowid, mig_runs>>
    /\ UNCHANGED <<mergeVars, extractVars, batchVars, recogVars, imageVars, guideTextVars>>

\* The source table is drawn.  The service starts on an empty target; the
\* script is handed a count, and the target holds that many rows, the first
\* of the source.
MigrationInit ==
    /\ mig_source \in SUBSET (1..MaxSourceRowid)
    /\ mig_script \in {"service", "resume"}
    /\ mig_count \in 0..(IF mig_script = "resume" THEN Cardinality(mig_source) ELSE 0)
    /\ mig_target = SubSeq(OrderByRowid(mig_source), 1, mig_count)
    /\ mig_pc = "idle"
    /\ mig_running = TRUE
    /\ mig_batch_size = BatchSize
    /\ mig_last_rowid = 0
    /\ mig_start_rowid = 0
    /\ mig_failed = FALSE
    /\ mig_runs = 0
    /\ BatchIdle
    /\ RecogIdle
    /\ ImageIdle
    /\ GuideTextIdle
    /\ parts = {}
    /\ before = {}
    /\ lastOp = "init"
    /\ inserts = 0
    /\ pdf = NoDocument
    /\ catalog_data = <<>>
    /\ guide_data = <<>>

MigrationNext ==
    StartMigrateParts \/ StopMigration \/ MigrateBatch \/ StartResume \/ ResumeBatch

MigrationSpec == MigrationInit /\ [][MigrationNext]_vars

-----------------------------------------------------------------------------
(* Claims about merge_duplicate_parts, checked under MergeSpec.            *)

IdsOf(tbl) == {r.id : r \in tbl}
KeysOf(tbl) == {KeyOf(r) : r \in tbl}
MinId(rows) == CHOOSE i \in IdsOf(rows) : \A j \in IdsOf(rows) : i <= j

\* C2: merge_duplicate_parts is idempotent: on the table a run has left, a
\* second run changes nothing (same rows, same value in every column).
C2_MergeIdempotent == lastOp = "merge" => MergeResult(parts) = parts

\* A run that merged a duplicate group and changed text has happened.
C2_Witness ==
    /\ lastOp = "merge"
    /\ DuplicateKeys(before) # {}
    /\ \E r \in before : r.description = LongText
    /\ \E r \in parts : r \notin before

\* C3: after a run every key that had rows has exactly one row, the row of
\* lowest id of its group; the other rows of the group are gone and no row
\* of a unique key is deleted.
C3_LowestIdSurvives ==
    lastOp = "merge" =>
        /\ KeysOf(parts) = KeysOf(before)
        /\ \A k \in KeysOf(before) :
              /\ Cardinality(RowsOfKey(parts, k)) = 1
              /\ IdsOf(RowsOfKey(parts, k)) = {MinId(RowsOfKey(before, k))}
        /\ IdsOf(parts) = {MinId(RowsOfKey(before, k)) : k \in KeysOf(before)}

\* A run over a table that held a group of two rows and a row of a unique key.
C3_Witness ==
    /\ lastOp = "merge"
    /\ \E k \in KeysOf(before) : Cardinality(RowsOfKey(before, k)) = 2
    /\ \E k \in KeysOf(before) : Cardinality(RowsOfKey(before, k)) = 1
    /\ Cardinality(parts) = 2

\* The row that holds key k.
RowOfKey(tbl, k) == CHOOSE r \in tbl : KeyOf(r) = k

\* C4: the survivor of a duplicate group holds, in its description, the
\* cleaned description of every row of the group that had one (unless the
\* merged text is longer than the cap), and its description has no run of
\* three or more dots or dashes and no repeated whitespace.
C4_MergedDescription ==
    lastOp = "merge" =>
        \A k \in DuplicateKeys(before) :
            LET group == RowsOfKey(before, k)
                kept == RowOfKey(parts, k)
            IN  /\ NoLongRuns(kept.description)
                /\ NoRepeatedSpace(kept.description)
                /\ Len(MergedData(OrderById(group)).description) <= DescCap =>
                      \A r \in group :
                          Truthy(r.description) =>
                              Contains(kept.description, clean_descriptions(r.description))

\* 'Brake pad' and 'Brake pad for model X' have been merged, in that order,
\* into one description that holds both.
C4_Witness ==
    /\ lastOp = "merge"
    /\ \E k \in DuplicateKeys(before) :
          LET rows == OrderById(RowsOfKey(before, k))
          IN  /\ Len(rows) = 2
              /\ rows[1].description = BrakePad
              /\ rows[2].description = BrakePadX
              /\ Contains(RowOfKey(parts, k).description, BrakePad)
              /\ Contains(RowOfKey(parts, k).description, BrakePadX)
              /\ Len(RowOfKey(parts, k).description) = Len(BrakePad) + 1 + Len(BrakePadX)

-----------------------------------------------------------------------------
(* Claims about the extractors, checked under ExtractSpec.                 *)

\* The pages of the document on which extraction or mining raises.
FailingPages(doc) ==
    {p \in 1..Len(doc.pages) : doc.pages[p].kind \in {"textError", "recogError", "mineError"}}

\* C5: when extraction or recognition fails on a single page of a document,
\* the first page included, process_pdf still returns the parts of every
\* other page.
C5_PageFailureIsolated ==
    (pdf.kind = "catalog" /\ pdf.opens /\ Cardinality(FailingPages(pdf)) = 1) =>
        \A q \in 1..Len(pdf.pages) :
            \A i \in 1..Len(PageRecords(pdf, q)) :
                PageRecords(pdf, q)[i] \in Range(catalog_data)

\* C6: when extraction or mining fails on one page of a guide, the sections,
\* specifications and related parts of every other page are still collected
\* and the record is finalized: related parts without duplicates, template
\* fields generated.
C6_GuidePageFailureIsolated ==
    (pdf.kind = "guide" /\ pdf.opens /\ Cardinality(FailingPages(pdf)) = 1) =>
        /\ \A q \in 1..Len(pdf.pages) :
              pdf.pages[q].kind = "text" =>
                  /\ Range(SectionsOf(pdf.pages[q], q)) \subseteq Range(guide_data.sections)
                  /\ DOMAIN pdf.pages[q].found.specs \subseteq DOMAIN guide_data.specifications
                  /\ Range(pdf.pages[q].found.parts) \subseteq Range(guide_data.related_parts)
        /\ \A i, j \in 1..Len(guide_data.related_parts) :
              guide_data.related_parts[i] = guide_data.related_parts[j] => i = j
        /\ guide_data.template_fields # EmptyDict

-----------------------------------------------------------------------------
(* Claims about the batch drivers, checked under BatchSpec / FairBatchSpec. *)

AttemptedInOrder ==
    /\ Len(report) <= Len(listing)
    /\ \A i \in 1..Len(report) : report[i].name = listing[i]

\* The driver has returned after attempting every document of its listing.
BatchDone ==
    /\ phase = "idle"
    /\ Len(report) = Len(listing)
    /\ AttemptedInOrder

\* C7: in both drivers a failure on one document never stops the batch: the
\* documents of the listing are attempted once each, in order, and a driver
\* that has been started returns after the last one.
C7_BatchCompletes ==
    /\ [](AttemptedInOrder)
    /\ (phase # "idle") ~> BatchDone

\* A driver has returned from a listing of two documents whose first
\* document failed.
C7_Witness ==
    /\ BatchDone
    /\ Len(listing) = 2
    /\ report[1].status = "error"
    /\ report[2].status = "ok"

\* C8: a catalog PDF that cannot be opened is never reported by the driver
\* as successfully processed.
C8_OpenFailureSignalled ==
    \A i \in 1..Len(report) :
        (report[i].kind = "catalog" /\ ~report[i].opened) => report[i].status # "ok"

-----------------------------------------------------------------------------
(* Claims about the recognizer, checked under RecogSpec.                   *)

\* The number of a match that spans the text s: upper-cased and trimmed.
Normalized(s) == Strip(UpperCase(s))

\* The rules of the list whose match is the whole of s.
MatchingRules(s) ==
    {k \in 1..Len(PART_NUMBER_PATTERNS) :
        LET ms == finditer(PART_NUMBER_PATTERNS[k].pattern, s, 1)
        IN  ms # <<>> /\ ms[1].start = 1 /\ ms[1].end = Len(s) + 1}

\* s is one string that matches a rule and passes the false-positive filter.
OneMatchingString(s) == MatchingRules(s) # {} /\ _is_valid_part(Normalized(s))

\* The candidates whose number is the whole text.
WholeCandidates == {i \in 1..Len(part_info) : part_info[i].number = Normalized(recog_text)}

IsDigits(s) == \A i \in 1..Len(s) : s[i] \in Digits

\* A four-digit year that begins with 19 or 20.
IsYear(s) ==
    /\ Len(s) = 4
    /\ IsDigits(s)
    /\ SubSeq(s, 1, 2) \in {<<"1", "9">>, <<"2", "0">>}

\* A bare number of one to three digits.
IsPageNumber(s) == Len(s) \in 1..3 /\ IsDigits(s)

\* One of the tokens CHAPTER, SECTION, PAGE, FIG, TABLE, in any letter case.
IsCommonWord(s) == UpperCase(s) \in Range(CommonWords)

\* C10: _is_valid_part rejects every four-digit year beginning with 19 or 20,
\* every bare number of one to three digits, every token CHAPTER, SECTION,
\* PAGE, FIG or TABLE in any letter case and every number shorter than 4
\* characters, and it accepts 'D1234', '600-123A' and 'CH5004'.
C10_FalsePositiveFilter ==
    called = "_is_valid_part" =>
        /\ (IsYear(part_num) \/ IsPageNumber(part_num) \/ IsCommonWord(part_num)
              \/ Len(part_num) < 4) => ~valid
        /\ part_num \in {TextD1234, Text600, TextCH5004} => valid

\* 'chapter', in lower case, has been rejected.
C10_Witness ==
    /\ called = "_is_valid_part"
    /\ part_num = TextChapterLower
    /\ ~valid

\* C11: the single page 'Kit CH5004 fits D50, D52 brakes' yields a record
\* CH5004 of type kit and records D50 and D52 of type part or model, each with
\* the category 'Brake System', and a machine-model set that holds D50 and D52.
C11_KitLineScenario ==
    (called = "process_pdf" /\ recog_text = TextKitLine) =>
        /\ \E i \in 1..Len(page_parts) :
              /\ page_parts[i].part_number = TextCH5004
              /\ page_parts[i].part_type = "kit"
              /\ page_parts[i].category = "Brake System"
        /\ \A n \in {<<"D", "5", "0">>, <<"D", "5", "2">>} :
              \E i \in 1..Len(page_parts) :
                  /\ page_parts[i].part_number = n
                  /\ page_parts[i].part_type \in {"part", "model"}
                  /\ page_parts[i].category = "Brake System"
        /\ {<<"D", "5", "0">>, <<"D", "5", "2">>} \subseteq machine_info

\* C12: part extraction followed by validation by the stand-alone script
\* returns exactly one candidate per distinct part number, short numbers
\* included: no two candidates of a page text carry the same number, and of
\* the dayton line, validated as a dayton catalog, exactly the three
\* candidates D50, 600-123 and CH5678 are returned.
DaytonNumbers == {<<"D", "5", "0">>, <<"6", "0", "0", "-", "1", "2", "3">>, <<"C", "H", "5", "6", "7", "8">>}
C12_OneCandidatePerNumber ==
    called = "valid_parts" =>
        /\ \A i, j \in 1..Len(part_info) : part_info[i].number = part_info[j].number => i = j
        /\ (recog_text = TextDaytonLine /\ catalog_type = "dayton") =>
               /\ Len(part_info) = 3
               /\ {part_info[i].number : i \in 1..Len(part_info)} = DaytonNumbers

\* The context holds, in any case, a keyword of the category named.
HasKeywordOf(context, name) ==
    \E i \in 1..Len(category_indicators[CategoryIndex(name)].indicators) :
        Contains(LowerCase(context), category_indicators[CategoryIndex(name)].indicators[i])
BrakeAndKit(context) ==
    HasKeywordOf(context, "Brake System") /\ HasKeywordOf(context, "Kits & Assemblies")

\* C13 as stated: for every context that holds both a Brake System keyword
\* and a Kits & Assemblies keyword, _infer_category returns 'Brake System'.
C13_AlwaysBrakeSystem ==
    (called = "_infer_category" /\ BrakeAndKit(recog_text)) => category = "Brake System"

\* C13: for a context that holds both a Brake System keyword and a Kits &
\* Assemblies keyword, _infer_category never returns 'Kits & Assemblies' or
\* 'General', and it returns 'Brake System' when the part-number patterns
\* decide nothing and no Exhaust System keyword, which stands before Brake
\* System in the table, is held.
C13_BrakeBeforeKits ==
    (called = "_infer_category" /\ BrakeAndKit(recog_text)) =>
        /\ category \notin {"Kits & Assemblies", "General"}
        /\ (/\ _infer_category_from_part_number(recog_text) \in {NoCategory, "General"}
            /\ ~HasKeywordOf(recog_text, "Exhaust System"))
              => category = "Brake System"
C13_Witness ==
    /\ called = "_infer_category"
    /\ recog_text = JoinWords(<<<<"K", "I", "T">>, <<"C", "H", "5", "0", "0", "4">>, <<"B", "r", "a", "k", "e">>>>)
    /\ category = "Brake System"

-----------------------------------------------------------------------------
(* Claims about the image extractors, checked under ImageSpec.             *)

\* C14 as stated: the confidence given to a part found in a span is exactly
\* max(0, 1 - (|dx| + |dy|) / 400); distances are doubled, confidences are
\* in hundredths, so the exact value times 800 is 800 less the distance.
C14_ExactFormula ==
    img_called = "_find_nearby_part_numbers" =>
        \A i \in 1..Len(nearby_parts) :
            8 * nearby_parts[i].confidence =
                (IF nearby_parts[i].distance2 >= 800 THEN 0
                 ELSE 800 - nearby_parts[i].distance2)

\* C14: the confidence _find_nearby_part_numbers gives to a part found in a
\* span is max(0, 1 - (|dx| + |dy|) / 400) rounded to hundredths: it differs
\* from that value by at most half a hundredth, lies within [0, 1], is 1 at
\* distance 0, does not grow as the distance grows, and is given only to
\* spans nearer than 400.
C14_RoundedConfidence ==
    img_called = "_find_nearby_part_numbers" =>
        \A i \in 1..Len(nearby_parts) :
            LET e == nearby_parts[i]
            IN  /\ e.distance2 < 800
                /\ Abs(8 * e.confidence - (800 - e.distance2)) <= 4
                /\ e.confidence \in 0..100
                /\ e.distance2 = 0 => e.confidence = 100
                /\ \A j \in 1..Len(nearby_parts) :
                       nearby_parts[j].distance2 >= e.distance2
                           => nearby_parts[j].confidence <= e.confidence
C14_Witness ==
    /\ img_called = "_find_nearby_part_numbers"
    /\ \E i, j \in 1..Len(nearby_parts) :
          /\ nearby_parts[i].distance2 = 1 /\ nearby_parts[i].confidence = 100
          /\ nearby_parts[j].distance2 = 798 /\ nearby_parts[j].confidence = 0

\* The span's center is less than 200 from the center of the rectangle,
\* both across and down.
WithinGate(block, rect) ==
    /\ Abs((block.bbox[1] + block.bbox[3]) - (rect[1] + rect[3])) < 400
    /\ Abs((block.bbox[2] + block.bbox[4]) - (rect[2] + rect[4])) < 400
NumbersIn(s) ==
    LET found == _extract_parts_from_text(s)
    IN  {found[i].part_number : i \in 1..Len(found)}
MentionedNear ==
    UNION {NumbersIn(in_blocks[k].text) :
              k \in {h \in 1..Len(in_blocks) : WithinGate(in_blocks[h], in_rect)}}

\* C15: _find_nearby_part_numbers returns each part number at most once,
\* with the highest confidence among the spans that contribute it, sorted by
\* non-increasing confidence; the numbers returned are those mentioned by
\* spans less than 200 away both horizontally and vertically.
C15_UniqueBestSorted ==
    img_called = "_find_nearby_part_numbers" =>
        /\ \A i, j \in 1..Len(unique_parts) :
               unique_parts[i].part_number = unique_parts[j].part_number => i = j
        /\ \A i \in 1..Len(unique_parts) :
               /\ \E k \in 1..Len(nearby_parts) : nearby_parts[k] = unique_parts[i]
               /\ \A k \in 1..Len(nearby_parts) :
                      nearby_parts[k].part_number = unique_parts[i].part_number
                          => nearby_parts[k].confidence <= unique_parts[i].confidence
        /\ \A i \in 1..(Len(unique_parts) - 1) :
               unique_parts[i].confidence >= unique_parts[i + 1].confidence
        /\ {unique_parts[i].part_number : i \in 1..Len(unique_parts)} = MentionedNear
C15_Witness ==
    /\ img_called = "_find_nearby_part_numbers"
    /\ Len(unique_parts) = 2
    /\ unique_parts[1].confidence > unique_parts[2].confidence
    /\ \E h, k \in 1..Len(nearby_parts) :
          /\ h < k
          /\ nearby_parts[h].part_number = nearby_parts[k].part_number
          /\ nearby_parts[h].confidence < nearby_parts[k].confidence
    /\ \E k \in 1..Len(in_blocks) : WithinGate(in_blocks[k], in_rect)

\* Image k of the page passed the size filters and no part is near it.
SizeOk(pix, page) ==
    /\ ~pix.raises
    /\ pix.channels < 4
    /\ pix.width >= 50 /\ pix.height >= 50
    /\ 10 * pix.width * pix.height <= 8 * page.width * page.height
Orphan(k) ==
    /\ SizeOk(img_page.images[k], img_page)
    /\ _find_nearby_part_numbers(img_page.blocks, _get_image_rect(img_page.images[k])) = <<>>

\* C16: when no part number is found near an image that passed the size
\* filters, the image is not dropped: it is saved and associated with a part
\* of the page.
C16_OrphanImageKept ==
    img_called = "extract_images_with_parts" =>
        \A k \in 1..Len(img_page.images) :
            Orphan(k) =>
                /\ \E s \in saved_images : s.index = k
                /\ \E i \in 1..Len(img_results) : img_results[i].image_index = k

\* C17: no image narrower or shorter than 50 pixels, and no image whose
\* pixel area exceeds 80% of the page area, is saved or attached to a part,
\* by extract_images_with_parts or by _extract_part_images.
Acceptable(width, height) ==
    /\ width >= 50 /\ height >= 50
    /\ 10 * width * height <= 8 * img_page.width * img_page.height
C17_NoSmallOrFullPageImage ==
    img_called \in {"extract_images_with_parts", "_extract_part_images"} =>
        /\ \A s \in saved_images : Acceptable(s.width, s.height)
        /\ \A i \in 1..Len(img_results) :
               Acceptable(img_results[i].image_width, img_results[i].image_height)
        /\ \A i \in 1..Len(image_paths) :
               image_paths[i].image_index # 0 =>
                   Acceptable(img_page.images[image_paths[i].image_index].width,
                              img_page.images[image_paths[i].image_index].height)
C17_Witness ==
    /\ img_called = "extract_images_with_parts"
    /\ Len(img_page.images) = 2
    /\ \E s \in saved_images : s.index = 2 /\ 10 * s.width * s.height = 8 * img_page.width * img_page.height
    /\ ~Acceptable(img_page.images[1].width, img_page.images[1].height)
    /\ ~img_page.images[1].raises /\ img_page.images[1].channels < 4
    /\ \A s \in saved_images : s.index # 1

-----------------------------------------------------------------------------
(* Claims about the text functions of GuideExtractor, checked under        *)
(* GuideTextSpec.                                                          *)

\* C18: _clean_spec_key maps every letter-case variant of an abbreviation of
\* its table, and the abbreviation's full expansion, to one and the same key,
\* the capitalized expansion ('max', 'MAX' and 'maximum' give 'Maximum',
\* 'RPM' gives 'Speed').
C18_VariantsCollapse ==
    gt_called = "_clean_spec_key" =>
        \A k \in 1..Len(replacements) :
            LowerCase(gt_text) \in {replacements[k].short, replacements[k].full}
                => clean_key = Capitalize(replacements[k].full)

\* C19: no key of the map _extract_specifications returns is numeric-only,
\* one character long, or one of the words page, figure, table, chapter,
\* section in any letter case.
C19_NoJunkKeys ==
    gt_called = "_extract_specifications" =>
        \A k \in DOMAIN spec_map :
            /\ ~isdigit(k)
            /\ Len(k) # 1
            /\ LowerCase(k) \notin SpecFalsePositives

\* The numbers the catalog recognizer yields over the texts of the pages.
CatalogNumbers(page_texts) ==
    UNION {LET found == extract_part_info(page_texts[k], k)
           IN  {found[i].number : i \in 1..Len(found)} : k \in 1..Len(page_texts)}

\* C20: the related parts of a guide are exactly the set of numbers the
\* catalog recognizer (extract_part_info: the rules of PART_NUMBER_PATTERNS
\* and _is_valid_part) yields over the text of all the pages of the guide.
C20_SameRecognizer ==
    gt_called = "process_guide_pdf" => guide_related = CatalogNumbers(gt_pages)

\* The positions, in category_indicators, of the groups one of whose keywords
\* occurs in the lower-cased context.
KeywordHits(context) ==
    {k \in 1..Len(category_indicators) :
        \E i \in 1..Len(category_indicators[k].indicators) :
            Contains(LowerCase(context), category_indicators[k].indicators[i])}
LeastOf(S) == CHOOSE k \in S : \A j \in S : k <= j

\* C21: when the part-number shapes of the context decide nothing,
\* _infer_category returns the category of the first group, in the declared
\* order, one of whose keywords occurs in the lower-cased context, and
\* 'General' when no keyword occurs; an empty context gives 'General'.
C21_FirstKeywordGroup ==
    (called = "_infer_category"
        /\ _infer_category_from_part_number(recog_text) = NoCategory) =>
        category = IF recog_text = <<>> \/ KeywordHits(recog_text) = {}
                   THEN "General"
                   ELSE category_indicators[LeastOf(KeywordHits(recog_text))].category
C21_Witness ==
    /\ called = "_infer_category"
    /\ _infer_category_from_part_number(recog_text) = NoCategory
    /\ Cardinality(KeywordHits(recog_text)) >= 2
    /\ recog_text # LowerCase(recog_text)
    /\ category = category_indicators[LeastOf(KeywordHits(recog_text))].category

\* The positions of the header lines of a page, the n-th of them, and the
\* lines a..b as they are appended to a content: stripped, a space after each.
HeaderLines(lines) == {k \in 1..Len(lines) : IsSectionHeader(Strip(lines[k]))}
NthOf(S, n) == CHOOSE h \in S : Cardinality({g \in S : g < h}) = n - 1
RECURSIVE BodyOf(_, _, _)
BodyOf(lines, a, b) ==
    IF a > b THEN <<>> ELSE Strip(lines[a]) \o <<" ">> \o BodyOf(lines, a + 1, b)

\* C22: _extract_sections returns one section per header line of the page, in
\* line order, with the page number handed in; the content of a section is
\* made of exactly the lines between its header and the next header (or the
\* end of the page), so a line before the first header is in no section.
C22_SectionPerHeader ==
    gt_called = "_extract_sections" =>
        LET lines == SplitLines(gt_text)
            H == HeaderLines(lines)
        IN  /\ Len(gt_sections) = Cardinality(H)
            /\ \A n \in 1..Len(gt_sections) :
                  LET h == NthOf(H, n)
                      next == IF n < Cardinality(H) THEN NthOf(H, n + 1) ELSE Len(lines) + 1
                  IN  /\ gt_sections[n].title = Strip(lines[h])
                      /\ gt_sections[n].page = gt_page_num
                      /\ gt_sections[n].content = BodyOf(lines, h + 1, next - 1)
C22_Witness ==
    /\ gt_called = "_extract_sections"
    /\ gt_page_num = 2
    /\ HeaderLines(SplitLines(gt_text)) = {2}
    /\ Len(SplitLines(gt_text)) = 3
    /\ Len(gt_sections) = 1
    /\ gt_sections[1].content = <<"t", "h", "e", " ", "p", "a", "d", " ">>

\* C23: the context of every candidate extract_part_info returns is at most
\* 250 characters long, whether it is the first line that holds the matched
\* text or the window around the match when no line holds it.
C23_ContextBounded ==
    called = "extract_part_info" =>
        \A i \in 1..Len(part_info) : Len(part_info[i].context) <= ContextBudget

\* C24: the year rule of _is_valid_part rejects only the numbers that are, as
\* a whole, a four-digit year: a number of four or more characters that is
\* not such a year and that the page-number rule and the common-word rule
\* let pass is accepted, 'FP-2015' and '600-2023' among them.
C24_OnlyWholeYearsRejected ==
    (called = "_is_valid_part"
        /\ ~IsYear(part_num)
        /\ ~re_search(PageNumberPattern, part_num, TRUE)
        /\ ~re_search(CommonWordPattern, part_num, TRUE)
        /\ Len(part_num) >= MinPartLen) => valid

\* Image k of the page is an RGB image of at least 50x50 pixels, smaller
\* than the page, and the text of the spans near it holds a part number the
\* catalog recognizer finds.
PartImage(page, k) ==
    LET pix == page.images[k]
    IN  /\ ~pix.raises
        /\ pix.channels < 4
        /\ pix.width >= SmallSide /\ pix.height >= SmallSide
        /\ pix.width < page.width /\ pix.height < page.height
        /\ extract_part_info(NearbyText(page, <<0, 0, pix.width, pix.height>>, 1), 1) # <<>>

\* C25: after _extract_part_images has run over a page that holds such an
\* image, every part of that page has an image path, and it names an image
\* of that page.
C25_PartsOfPageGetImage ==
    (img_called = "_extract_part_images"
        /\ \E k \in 1..Len(img_page.images) : PartImage(img_page, k)) =>
        \A i \in 1..Len(image_paths) :
            image_paths[i].page = 1 =>
                /\ image_paths[i].image_index \in 1..Len(img_page.images)
                /\ \E sv \in saved_images : sv.index = image_paths[i].image_index

-----------------------------------------------------------------------------
(* Claims about the duplicate removers, checked under MergeSpec.           *)

RemovalOps ==
    {"merge", "cleanup_duplicates"} \cup {DedupOp(FALSE, st) : st \in KeepStrategies}
UniqueKeyRows(tbl) == {r \in tbl : Cardinality(RowsOfKey(tbl, KeyOf(r))) = 1}

\* C26: no duplicate remover (merge_duplicate_parts, cleanup_duplicates of
\* the batch driver, cleanup_duplicates of deduplicate.py in execute mode)
\* deletes a row whose (catalog_name, part_number, page) is held by no other
\* row of the table.
C26_UniqueKeyRowsSurvive ==
    lastOp \in RemovalOps =>
        \A r \in UniqueKeyRows(before) : r.id \in IdsOf(parts)

\* C26, of merge_duplicate_parts and the batch driver's cleanup_duplicates
\* alone.
C26_KeyedRemoversKeepUniqueRows ==
    lastOp \in {"merge", "cleanup_duplicates"} =>
        \A r \in UniqueKeyRows(before) : r.id \in IdsOf(parts)

\* The duplicate groups of deduplicate.py, written from its query: two or
\* more rows with a description and the same part number, description,
\* machine info and catalog.
SameDedupColumns(r, q) ==
    /\ r.part_number = q.part_number
    /\ r.description = q.description
    /\ r.machine_info = q.machine_info
    /\ r.catalog_name = q.catalog_name
InDuplicateGroup(tbl, r) ==
    r.description # NULL /\ \E q \in tbl : q.id # r.id /\ SameDedupColumns(r, q)
GroupOf(tbl, r) == {q \in tbl : SameDedupColumns(r, q)}

\* C27: with dry_run the table is left as it was, whatever the strategy;
\* in execute mode exactly one row of every duplicate group is left, the
\* row of lowest id under 'lowest_id' and of highest id under 'highest_id',
\* and the other rows of the group are deleted.
C27_DryRunAndKeepOne ==
    /\ lastOp \in {DedupOp(TRUE, st) : st \in KeepStrategies} => parts = before
    /\ \A st \in KeepStrategies :
          lastOp = DedupOp(FALSE, st) =>
              \A r \in before :
                  InDuplicateGroup(before, r) =>
                      LET left == GroupOf(before, r) \cap parts
                      IN  /\ Cardinality(left) = 1
                          /\ st = "lowest_id" => IdsOf(left) = {MinId(GroupOf(before, r))}
                          /\ st = "highest_id" =>
                                \A q \in GroupOf(before, r) : \A k \in left : q.id <= k.id
C27_Witness ==
    /\ lastOp = DedupOp(FALSE, "highest_id")
    /\ \E r \in before :
          /\ Cardinality(GroupOf(before, r)) = 2
          /\ InDuplicateGroup(before, r)
          /\ r \notin parts
          /\ r.id = MinId(GroupOf(before, r))
    /\ Cardinality(parts) = 2

-----------------------------------------------------------------------------
(* Claim about the guide store, checked under BatchSpec.                   *)

GuideIds == {g.id : g \in technical_guides}

\* C28: after any sequence of save_guide_to_database calls, a guide saved
\* again under a stored guide_name included, every guide_parts row has the
\* id of a row of technical_guides.
C28_AssociationsPointAtGuides ==
    \A a \in guide_parts : a.guide_id \in GuideIds

\* C28, while no guide_name has been saved twice: the ids handed out so far
\* are the ids of the stored guides.
C28_NoDanglingBeforeReplace ==
    Cardinality(technical_guides) = guide_seq =>
        \A a \in guide_parts : a.guide_id \in GuideIds

-----------------------------------------------------------------------------
(* Claims about the parts migrations, checked under MigrationSpec.         *)

\* How many rows of the target were copied from source row r.
CopiesOf(r) == Cardinality({i \in DOMAIN mig_target : mig_target[i] = r})
Contiguous(S) == \A r \in S : \A q \in S : \A m \in r..q : m \in S

\* C29: when migrate_parts_data, started on an empty target, ends by running
\* out of source rows (in one run, or in a later run after runs that were
\* stopped between batches), every source row is in the target exactly once,
\* whatever gaps the rowids have.
C29_EveryRowCopiedOnce ==
    (mig_script = "service" /\ mig_pc = "done" /\ ~mig_failed) =>
        \A r \in mig_source : CopiesOf(r) = 1

\* C29, what does hold: with contiguous rowids no row is copied twice, and
\* the only row left out is the first.
C29_ContiguousMissesOnlyFirst ==
    (mig_script = "service" /\ mig_pc = "done" /\ ~mig_failed /\ Contiguous(mig_source)) =>
        \A r \in mig_source :
            CopiesOf(r) = IF \A q \in mig_source : r <= q THEN 0 ELSE 1

\* C30: when a batch insert of migrate_parts_data_resume has failed, the loop
\* has gone on with the reduced batch size and the migration has finished,
\* every source row after the resume point is in the target exactly once.
C30_FailedBatchRetried ==
    (mig_script = "resume" /\ mig_pc = "done" /\ mig_failed) =>
        \A r \in mig_source : r > mig_start_rowid => CopiesOf(r) = 1

\* C30, what does hold: with contiguous rowids and no failed insert every row
\* after the resume point is copied once.
C30_NoFailureCopiesOnce ==
    (mig_script = "resume" /\ mig_pc = "done" /\ ~mig_failed /\ Contiguous(mig_source)) =>
        \A r \in mig_source : r > mig_start_rowid => CopiesOf(r) = 1

====
